---- MODULE Spec2Model ----
(***************************************************************************)
(* A model of the playlist synchronisation core of the backend:            *)
(*   backend/cache.py  - MatchFailureDatabase (failure ledger, sqlite) and *)
(*                       TrackMatchCache (in-memory correspondence cache)  *)
(*   backend/sync.py   - match helpers, tidal_search_batch / _single,      *)
(*                       populate_track_match_cache, sync_playlist         *)
(*   backend/main.py   - clear_track_failure, like_songs_on_tidal          *)
(*   backend/tidalapi_patch.py - _get_all_chunks, clear and add in chunks   *)
(* Time is counted in whole days (the unit of the backoff intervals).      *)
(* Strings are sequences of characters, each a one-character string.       *)
(***************************************************************************)
EXTENDS Integers, Sequences, FiniteSets, TLC

VARIABLES
    now,              \* datetime.datetime.now(), in days
    ledger,           \* match_failures table: track_id -> row or NoRecord
    cache,            \* track_match_cache.data: spotify id -> tidal id (0 = absent)
    proc,             \* per process: its cache_match_failure transaction
    playlist_data,    \* the source playlist handed to sync_playlist
    batch_size,       \* config['search_batch_size']
    tidal_playlists,  \* the target account: sequence of [name, tracks]
    pc,               \* position of the sync_playlist run
    sync,             \* locals of the running sync_playlist
    lookups,          \* per index of tracks_to_search: its tidal_search_single coroutine
    run,              \* bookkeeping of the current run (calls issued)
    hist,             \* bookkeeping across runs
    chunks,           \* the running _get_all_chunks call
    like,             \* the running like_songs_on_tidal request
    matching,         \* a call of match: its arguments and its result
    seeding,          \* a call of populate_track_match_cache
    transfer,         \* the running run_playlist_transfer_process_async
    simplifying       \* a call of simple: its argument and its result

sideVars == <<like, matching, seeding, transfer, simplifying>>
syncVars == <<playlist_data, batch_size, tidal_playlists, pc, sync, lookups, run,
              chunks, sideVars>>
vars == <<now, ledger, cache, proc, playlist_data, batch_size,
          tidal_playlists, pc, sync, lookups, run, hist, chunks, like,
          matching, seeding, transfer, simplifying>>

(***************************************************************************)
(* Bounds of the model                                                     *)
(***************************************************************************)
MaxTime == 8
MaxFailureCount == 5
MaxCalls == 2
MaxTracks == 3
MaxBatchSize == 2
MaxRuns == 3
MaxRaises == 1
MaxItems == 4
MaxLimit == 2

(***************************************************************************)
(* Small generic helpers                                                   *)
(***************************************************************************)
Min(a, b) == IF a < b THEN a ELSE b
Abs(x) == IF x < 0 THEN -x ELSE x
Range(s) == {s[i] : i \in 1..Len(s)}

RECURSIVE Pow2(_)
Pow2(n) == IF n <= 0 THEN 1 ELSE 2 * Pow2(n - 1)

\* the list left as it is
RemoveAt_Keep(s, i) == s

\* s.pop(idx) on a list, 1-based here
RemoveAt(s, i) == SubSeq(s, 1, i - 1) \o SubSeq(s, i + 1, Len(s))

(***************************************************************************)
(* Normalizer: sync.py normalize / simple and the string operations used   *)
(* by name_match.                                                          *)
(***************************************************************************)
UpperCase == <<"A","B","C","D","E","F","G","H","I","J","K","L","M",
               "N","O","P","Q","R","S","T","U","V","W","X","Y","Z">>
LowerCase == <<"a","b","c","d","e","f","g","h","i","j","k","l","m",
               "n","o","p","q","r","s","t","u","v","w","x","y","z">>
Punct == {" ", "-", "(", ")", "[", "]", "."}
AsciiChars == Range(UpperCase) \cup Range(LowerCase) \cup Punct

\* str.lower() on one character
LowerChar(c) ==
    IF \E i \in 1..26 : UpperCase[i] = c
    THEN LowerCase[CHOOSE i \in 1..26 : UpperCase[i] = c]
    ELSE IF c = "E_acute" THEN "e_acute" ELSE c

Lower(s) == [i \in 1..Len(s) |-> LowerChar(s[i])]

\* unicodedata.normalize('NFD', c).encode('ascii', 'ignore'): an ASCII
\* character is kept, an accented letter ("e_acute", "E_acute" stand for the
\* accented e) keeps its base letter, any other character is dropped
NormalizeChar(c) ==
    IF c \in AsciiChars THEN <<c>>
    ELSE IF c = "e_acute" THEN <<"e">>
    ELSE IF c = "E_acute" THEN <<"E">>
    ELSE <<>>

RECURSIVE normalize(_)
normalize(s) ==
    IF s = <<>> THEN <<>> ELSE NormalizeChar(Head(s)) \o normalize(Tail(s))

\* s.split(c)[0] for a one-character separator
SplitFirst(s, c) ==
    IF \E i \in 1..Len(s) : s[i] = c
    THEN SubSeq(s, 1, (CHOOSE i \in 1..Len(s) :
                          s[i] = c /\ \A j \in 1..(i - 1) : s[j] # c) - 1)
    ELSE s

RECURSIVE LStrip(_)
LStrip(s) == IF s # <<>> /\ Head(s) = " " THEN LStrip(Tail(s)) ELSE s

RECURSIVE RStrip(_)
RStrip(s) ==
    IF s # <<>> /\ s[Len(s)] = " " THEN RStrip(SubSeq(s, 1, Len(s) - 1)) ELSE s

\* str.strip()
Strip(s) == RStrip(LStrip(s))

\* sync.py simple()
simple(s) ==
    Strip(SplitFirst(Strip(SplitFirst(Strip(SplitFirst(s, "-")), "(")), "["))

\* python's  sub in s
Contains(sub, s) ==
    \E i \in 0..(Len(s) - Len(sub)) : SubSeq(s, i + 1, i + Len(sub)) = sub

\* s.split(sep)[0] for a separator string
SplitFirstStr(s, sep) ==
    IF Contains(sep, s)
    THEN SubSeq(s, 1, CHOOSE i \in 0..(Len(s) - Len(sep)) :
                         /\ SubSeq(s, i + 1, i + Len(sep)) = sep
                         /\ \A j \in 0..(i - 1) : SubSeq(s, j + 1, j + Len(sep)) # sep)
    ELSE s

FeatMarker == <<"f","e","a","t",".">>

(***************************************************************************)
(* Match Evaluator: sync.py isrc_match, duration_match, name_match,        *)
(* artist_match, match.  A tidal track is a record [id, name, artists,     *)
(* duration (s), isrc, available]; a spotify track a record [id, name,     *)
(* artists, duration (ms), isrc].  An absent id or isrc is "".             *)
(***************************************************************************)
Tolerance == 3

isrc_match(tidal_track, spotify_track) ==
    /\ tidal_track.isrc # ""
    /\ spotify_track.isrc # ""
    /\ tidal_track.isrc = spotify_track.isrc

\* the tolerance itself still passes
duration_match_Inclusive(tidal_track, spotify_track) ==
    Abs(tidal_track.duration * 1000 - spotify_track.duration) <= Tolerance * 1000

\* abs(tidal.duration - spotify.duration / 1000) < tolerance, in milliseconds
duration_match(tidal_track, spotify_track) ==
    Abs(tidal_track.duration * 1000 - spotify_track.duration) < Tolerance * 1000

name_match(tidal_track, spotify_track) ==
    LET simple_spotify_track ==
            Strip(SplitFirstStr(simple(Lower(spotify_track.name)), FeatMarker))
    IN  \/ Contains(simple_spotify_track, Lower(tidal_track.name))
        \/ Contains(normalize(simple_spotify_track),
                    normalize(Lower(tidal_track.name)))

artist_match(tidal_track, spotify_track) ==
    LET tidal_artists == {simple(Lower(a)) : a \in Range(tidal_track.artists)}
        spotify_artists == {simple(Lower(a)) : a \in Range(spotify_track.artists)}
    IN  tidal_artists \cap spotify_artists # {}

\* match without the test of the id
match_NoIdCheck(tidal_track, spotify_track) ==
    IF isrc_match(tidal_track, spotify_track) THEN TRUE
    ELSE /\ duration_match(tidal_track, spotify_track)
         /\ name_match(tidal_track, spotify_track)
         /\ artist_match(tidal_track, spotify_track)

\* match without the ISRC shortcut
match_NoIsrc(tidal_track, spotify_track) ==
    IF spotify_track.id = "" THEN FALSE
    ELSE /\ duration_match(tidal_track, spotify_track)
         /\ name_match(tidal_track, spotify_track)
         /\ artist_match(tidal_track, spotify_track)

\* sync.py 41-52
match(tidal_track, spotify_track) ==
    IF spotify_track.id = "" THEN FALSE
    ELSE IF isrc_match(tidal_track, spotify_track) THEN TRUE
    ELSE /\ duration_match(tidal_track, spotify_track)
         /\ name_match(tidal_track, spotify_track)
         /\ artist_match(tidal_track, spotify_track)

(***************************************************************************)
(* Failure Ledger: cache.py MatchFailureDatabase, table match_failures.    *)
(***************************************************************************)
TrackIds == {"a", "b", "c", "d", "f"}
TidalIds == {1, 2, 3}

NoTime == -1
NoRecord == [insert_time |-> NoTime, next_retry |-> NoTime,
             failure_count |-> 0, last_error |-> "None"]

BaseIntervalDays == 7
MaxMultiplier == 4

\* _get_next_retry_time with interval 7 days whatever the failure count
get_next_retry_time_Flat(insert_time, failure_count, t) == t + BaseIntervalDays

\* _get_next_retry_time without the cap on the multiplier
get_next_retry_time_NoCap(insert_time, failure_count, t) ==
    IF insert_time # NoTime
    THEN t + BaseIntervalDays * Pow2(failure_count - 1)
    ELSE t + BaseIntervalDays

\* MatchFailureDatabase._get_next_retry_time, called when the clock reads t;
\* insert_time = NoTime is the call without arguments
get_next_retry_time(insert_time, failure_count, t) ==
    IF insert_time # NoTime
    THEN t + BaseIntervalDays * Min(Pow2(failure_count - 1), MaxMultiplier)
    ELSE t + BaseIntervalDays

\* cache_match_failure that restarts insert_time on every failure
cache_match_failure_row_ResetInsert(existing_failure, error_message, t) ==
    [insert_time |-> t,
     next_retry |-> get_next_retry_time(t, existing_failure.failure_count + 1, t),
     failure_count |-> existing_failure.failure_count + 1,
     last_error |-> error_message]

\* MatchFailureDatabase.cache_match_failure: the row written for track_id,
\* given the row fetched (NoRecord when fetchone() returned None)
cache_match_failure_row(existing_failure, error_message, t) ==
    IF existing_failure # NoRecord
    THEN [existing_failure EXCEPT
            !.next_retry = get_next_retry_time(existing_failure.insert_time,
                                               existing_failure.failure_count + 1, t),
            !.failure_count = existing_failure.failure_count + 1,
            !.last_error = error_message]
    ELSE [insert_time |-> t,
          next_retry |-> get_next_retry_time(NoTime, 1, t),
          failure_count |-> 1,
          last_error |-> error_message]

\* has_match_failure that ignores the expiry of the backoff window
has_match_failure_NoExpiry(l, track_id, t) == l[track_id] # NoRecord

\* has_match_failure that holds no id back
has_match_failure_Never(l, track_id, t) == FALSE

\* MatchFailureDatabase.has_match_failure, called when the clock reads t
has_match_failure(l, track_id, t) ==
    IF l[track_id] # NoRecord THEN l[track_id].next_retry > t ELSE FALSE

\* remove_match_failure that clears the failure count and keeps the row
remove_match_failure_FieldClear(l, track_id) ==
    IF l[track_id] # NoRecord
    THEN [l EXCEPT ![track_id].failure_count = 0]
    ELSE l

\* remove_match_failure that ends the hold and keeps the row and its count
remove_match_failure_Expire(l, track_id) ==
    IF l[track_id] # NoRecord
    THEN [l EXCEPT ![track_id].next_retry = NoTime]
    ELSE l

\* MatchFailureDatabase.remove_match_failure: DELETE ... WHERE track_id = :id
remove_match_failure(l, track_id) == [l EXCEPT ![track_id] = NoRecord]

\* TrackMatchCache.get / insert / remove on the dict (0 = no entry)
cache_get(c, track_id) == c[track_id]
cache_insert(c, track_id, tidal_id) == [c EXCEPT ![track_id] = tidal_id]
cache_remove(c, track_id) == [c EXCEPT ![track_id] = 0]

(***************************************************************************)
(* The two catalogs the runs work on.  A playlist holds keys of            *)
(* SourceCatalog; the target side holds ids of TidalCatalog.               *)
(***************************************************************************)
N_Yo == <<"Y","o">>
N_YoFeat == <<"Y","o"," ","f","e","a","t","."," ","K">>
N_Up == <<"U","p">>
N_UpR == <<"U","p"," ","(","R",")">>
N_El == <<"E_acute","l">>
N_ElLive == <<"E","l"," ","(","L","i","v","e",")">>
A_Mo == <<"M","o">>
A_Zed == <<"Z","e","d">>
A_Kay == <<"K","a","y">>

SourceKeys == {"A", "B", "C", "D", "E"}

\* A: found by no search, yet equal to tidal track 2 under match
\* B: equal to tidal track 1 by ISRC only (title and duration differ)
\* C: equal to tidal track 2 by duration, name and artist
\* D: two artists; only the second artist's search holds its match, track 3
\* E: a manually entered record without id
\* F: a record with an id that lists no artist
ArtistlessKeys == {"F"}
Source(k) ==
    CASE k = "A" -> [id |-> "a", name |-> N_YoFeat, artists |-> <<A_Mo>>,
                     duration |-> 200000, isrc |-> ""]
      [] k = "B" -> [id |-> "b", name |-> N_Up, artists |-> <<A_Zed>>,
                     duration |-> 180000, isrc |-> "I1"]
      [] k = "C" -> [id |-> "c", name |-> N_Yo, artists |-> <<A_Mo>>,
                     duration |-> 201000, isrc |-> ""]
      [] k = "D" -> [id |-> "d", name |-> N_El, artists |-> <<A_Kay, A_Mo>>,
                     duration |-> 100500, isrc |-> ""]
      [] k = "F" -> [id |-> "f", name |-> N_Up, artists |-> <<>>,
                     duration |-> 180000, isrc |-> ""]
      [] OTHER   -> [id |-> "", name |-> N_Yo, artists |-> <<A_Mo>>,
                     duration |-> 200000, isrc |-> ""]

Tidal(t) ==
    CASE t = 1 -> [id |-> 1, name |-> N_UpR, artists |-> <<A_Zed>>,
                   duration |-> 250, isrc |-> "I1", available |-> TRUE]
      [] t = 2 -> [id |-> 2, name |-> N_Yo, artists |-> <<A_Mo>>,
                   duration |-> 202, isrc |-> "", available |-> TRUE]
      [] OTHER -> [id |-> 3, name |-> N_ElLive, artists |-> <<A_Mo>>,
                   duration |-> 100, isrc |-> "", available |-> FALSE]

\* tidal_session.search(f"{track_name} {artist_name}")['tracks'], as ids
Search(track_name, artist_name) ==
    CASE track_name = N_Up /\ artist_name = A_Zed -> <<1>>
      [] track_name = N_Yo /\ artist_name = A_Mo -> <<3, 2>>
      [] track_name = N_El /\ artist_name = A_Kay -> <<2>>
      [] track_name = N_El /\ artist_name = A_Mo -> <<2, 3>>
      [] OTHER -> <<>>

(***************************************************************************)
(* sync.py: the pure parts of populate_track_match_cache,                  *)
(* get_new_spotify_tracks, get_tracks_for_new_tidal_playlist and           *)
(* tidal_search_single                                                     *)
(***************************************************************************)
\* only the head of the list is tried
FirstIndex_HeadOnly(flags) ==
    IF flags # <<>> /\ flags[1] THEN 1 ELSE 0

\* index of the first TRUE in the list of flags, or 0
FirstIndex(flags) ==
    IF \E j \in 1..Len(flags) : flags[j]
    THEN CHOOSE j \in 1..Len(flags) : flags[j] /\ \A m \in 1..(j - 1) : ~flags[m]
    ELSE 0

\* first loop of populate_track_match_cache (sync.py 153-154) from tidal
\* track number i on: _populate_one_track_from_tidal pops the matched
\* spotify track; yields the cache and the spotify tracks left
RECURSIVE PopulateFromTidal(_, _, _, _)
PopulateFromTidal(c, spotify_tracks, tidal_tracks, i) ==
    IF i > Len(tidal_tracks) THEN [cache |-> c, spotify_tracks |-> spotify_tracks]
    ELSE LET tidal_track == Tidal(tidal_tracks[i])
             Hit(k) == tidal_track.available /\ match(tidal_track, Source(k))
             idx == FirstIndex([j \in 1..Len(spotify_tracks) |-> Hit(spotify_tracks[j])])
         IN  IF idx = 0
             THEN PopulateFromTidal(c, spotify_tracks, tidal_tracks, i + 1)
             ELSE PopulateFromTidal(
                      cache_insert(c, Source(spotify_tracks[idx]).id, tidal_track.id),
                      RemoveAt(spotify_tracks, idx), tidal_tracks, i + 1)

\* second loop of populate_track_match_cache (sync.py 156-157) from spotify
\* track number i on: _populate_one_track_from_spotify pops the matched
\* tidal track; yields the cache
RECURSIVE PopulateFromSpotify(_, _, _, _)
PopulateFromSpotify(c, spotify_tracks, tidal_tracks, i) ==
    IF i > Len(spotify_tracks) THEN c
    ELSE LET spotify_track == Source(spotify_tracks[i])
             Hit(t) == Tidal(t).available /\ match(Tidal(t), spotify_track)
             idx == FirstIndex([j \in 1..Len(tidal_tracks) |-> Hit(tidal_tracks[j])])
         IN  IF idx = 0
             THEN PopulateFromSpotify(c, spotify_tracks, tidal_tracks, i + 1)
             ELSE PopulateFromSpotify(
                      cache_insert(c, spotify_track.id, tidal_tracks[idx]),
                      spotify_tracks, RemoveAt(tidal_tracks, idx), i + 1)

\* populate_track_match_cache: the cache after seeding
populate_track_match_cache(c, spotify_tracks_, tidal_tracks_) ==
    LET first == PopulateFromTidal(c, spotify_tracks_, tidal_tracks_, 1)
    IN  PopulateFromSpotify(first.cache, first.spotify_tracks, tidal_tracks_, 1)

\* get_new_spotify_tracks without its filter
get_new_spotify_tracks_All(c, l, t, spotify_tracks) == spotify_tracks

\* get_new_spotify_tracks without the test of the cache
get_new_spotify_tracks_IgnoreCache(c, l, t, spotify_tracks) ==
    LET New(k) == /\ Source(k).id # ""
                  /\ ~has_match_failure(l, Source(k).id, t)
    IN  SelectSeq(spotify_tracks, New)

\* get_new_spotify_tracks
get_new_spotify_tracks(c, l, t, spotify_tracks) ==
    LET New(k) == /\ Source(k).id # ""
                  /\ cache_get(c, Source(k).id) = 0
                  /\ ~has_match_failure(l, Source(k).id, t)
    IN  SelectSeq(spotify_tracks, New)

\* get_tracks_for_new_tidal_playlist from spotify track number i on, with
\* the output built so far (seen_tracks is its set of elements)
RECURSIVE TracksForNewPlaylist(_, _, _, _)
TracksForNewPlaylist(c, spotify_tracks, i, output) ==
    IF i > Len(spotify_tracks) THEN output
    ELSE LET id == Source(spotify_tracks[i]).id
             tidal_id == IF id = "" THEN 0 ELSE cache_get(c, id)
         IN  IF tidal_id = 0 \/ tidal_id \in Range(output)
             THEN TracksForNewPlaylist(c, spotify_tracks, i + 1, output)
             ELSE TracksForNewPlaylist(c, spotify_tracks, i + 1,
                                       Append(output, tidal_id))

\* get_tracks_for_new_tidal_playlist without seen_tracks
get_tracks_for_new_tidal_playlist_NoDedupe(c, spotify_tracks) ==
    LET Cached(k) == Source(k).id # "" /\ cache_get(c, Source(k).id) # 0
        kept == SelectSeq(spotify_tracks, Cached)
    IN  [j \in 1..Len(kept) |-> cache_get(c, Source(kept[j]).id)]

\* get_tracks_for_new_tidal_playlist
get_tracks_for_new_tidal_playlist(c, spotify_tracks) ==
    TracksForNewPlaylist(c, spotify_tracks, 1, <<>>)

\* the first search result is taken unchecked
FirstMatch_NoCheck(search_results, spotify_track) ==
    IF search_results = <<>> THEN 0 ELSE search_results[1]

\* tidal_search_single 111-117: the first search result that matches, or 0
FirstMatch(search_results, spotify_track) ==
    LET Hit(t) == match(Tidal(t), spotify_track)
        idx == FirstIndex([j \in 1..Len(search_results) |-> Hit(search_results[j])])
    IN  IF idx = 0 THEN 0 ELSE search_results[idx]

(***************************************************************************)
(* Initial values of the state                                             *)
(***************************************************************************)
EmptyLedger == [id \in TrackIds |-> NoRecord]
EmptyCache == [id \in TrackIds |-> 0]
\* hist.removed[id]: the failure_count of the record of id that was deleted
\* last, until a second failure is recorded after the deletion (0 = none);
\* hist.removedActive[id]: that record's next_retry was still in the future
\* hist.prevDone: the previous run of sync_playlist completed (with tracks),
\* prevClean: no search of it raised, cold: the process restarted or the
\* clock advanced since the last run began; skippedDay1: the ids that a
\* completed run held back from the search one day after their first failure;
\* abandoned: a run was abandoned during Resolving, abRun its number, abCache
\* and abLedger the cache and the ledger at that moment
Hist0 == [removed |-> [id \in TrackIds |-> 0],
          removedActive |-> [id \in TrackIds |-> FALSE],
          prevDone |-> FALSE, prevClean |-> FALSE, cold |-> FALSE,
          skippedDay1 |-> {}, abandoned |-> FALSE, abRun |-> 0,
          abCache |-> EmptyCache, abLedger |-> EmptyLedger]
\* locals of sync_playlist / search_new_tracks_on_tidal / tidal_search_batch:
\* playlist = index of tidal_playlist in tidal_playlists (0 = none yet),
\* i = the batch loop's offset into tracks_to_search, completed = the indices
\* of the current batch's lookups in the order in which they returned,
\* chunk_size = the chunk_size of clear_tidal_playlist and of
\* add_multiple_tracks_to_playlist, offset = the latter's offset
PlaylistChunkSize == 20
Sync0 == [playlist |-> 0, old_tidal_tracks |-> <<>>, tracks_to_search |-> <<>>,
          i |-> 0, completed |-> <<>>, search_results |-> <<>>,
          new_tidal_track_ids |-> <<>>, offset |-> 0,
          chunk_size |-> PlaylistChunkSize]
\* per run: its number, the ids a remote search was issued for, the ids that
\* had a cache entry (cached0) resp. an active hold (held0) when Resolving
\* began, the clear and add requests sent,
\* the number of searches that raised, whether the run returned at once,
\* whether a lookup returned before a lookup of lower index of its batch
\* and whether the process restarted or the clock advanced since the
\* previous run began, and the failure count of every id when the run began
Run0 == [no |-> 0, searched |-> {}, cached0 |-> {}, clears |-> 0, adds |-> 0,
         raised |-> 0, skipped |-> FALSE, outOfOrder |-> FALSE,
         cold |-> FALSE, held0 |-> {}, count0 |-> [id \in TrackIds |-> 0]]
Procs == {1, 2}
\* a process: pc "idle" or "fetched" (between the SELECT and the write), the
\* row its SELECT returned, the calls it made per id and the calls that raised
Proc0 == [p \in Procs |->
            [pc |-> "idle", id |-> "a", snap |-> NoRecord,
             calls |-> [id \in TrackIds |-> 0], raised |-> 0]]

\* locals of _get_all_chunks: its position pc, the listing's
\* totalNumberOfItems and limit, params['offset'], items, per extra page its
\* thread (st "new", "set" after the offset is stored, "done" or "failed";
\* got = the parsed page), the offsets requested so far, the page threads
\* in the order in which they completed, and the list returned
Chunks0 == [pc |-> "idle", total |-> 0, limit |-> 1, offset |-> 0, items |-> <<>>,
            pages |-> <<>>, requested |-> <<>>, completed |-> <<>>,
            result |-> <<>>]

\* locals of like_songs_on_tidal and of the tidal_search_single call it
\* awaits: pc "idle" (no request runs), "lookup" (the call for tracks[i]
\* begins), "searching" (a search for the artist of that number is out) or
\* "adding" (favorites.add_track is due); requests = the requests begun,
\* track = the key the last lookup was called with, queries = the searches
\* of that lookup in the order issued, each with its artist number, its
\* results and whether it raised, ret = what the lookup returned, raised =
\* the calls that raised, favorites = the account's favorite tracks
Like0 == [pc |-> "idle", requests |-> 0, tracks |-> <<>>, i |-> 0, track |-> "E",
          artist |-> 0, queries |-> <<>>, ret |-> 0, liked_count |-> 0,
          failed_tracks |-> <<>>, raised |-> 0, favorites |-> {}]
\* a call of one of the match helpers: fn = the helper called ("none"
\* before the call)
Matching0 == [tidal_track |-> Tidal(1), spotify_track |-> Source("E"),
              fn |-> "none", result |-> FALSE]
\* locals of populate_track_match_cache: the arguments, the working lists
\* (as positions in the arguments), the loop (pc "args", "tidal",
\* "spotify" or "done") and its index i, and the hits so far, each with the
\* positions s and t of its tracks and the number of its loop
Seeding0 == [spotify_tracks_ |-> <<>>, tidal_tracks_ |-> <<>>, pc |-> "done",
             spotify_tracks |-> <<>>, tidal_tracks |-> <<>>, i |-> 0,
             hits |-> <<>>]

\* locals of run_playlist_transfer_process_async: pc "idle" (no transfer
\* runs), "loop" (the next playlist is due), "syncing" (sync_playlist is
\* awaited) or "ended"; the playlists handed over, the loop index i,
\* playlist_failures (per name: kind "none", "tracks" with the tracks held,
\* or "error" for a run that raised), successful_playlists, the status the
\* transfer report and the progress end with, and raised = the numbers of
\* the playlists whose sync_playlist raised
PlaylistNames == {"P", "Q"}
NoFailure == [kind |-> "none", tracks |-> <<>>]
Transfer0 == [pc |-> "idle", playlists |-> <<>>, i |-> 0,
              playlist_failures |-> [n \in PlaylistNames |-> NoFailure],
              successful_playlists |-> 0, status |-> "none", raised |-> {}]
\* a call of simple: the argument, whether the call returned, its result
Simplifying0 == [text |-> <<>>, called |-> FALSE, result |-> <<>>]

SideUnused ==
    /\ like = Like0
    /\ matching = Matching0
    /\ seeding = Seeding0
    /\ transfer = Transfer0
    /\ simplifying = Simplifying0

SyncUnused ==
    /\ chunks = Chunks0
    /\ SideUnused
    /\ playlist_data = [name |-> "P", tracks |-> <<>>]
    /\ batch_size = 1
    /\ tidal_playlists = <<>>
    /\ pc = "idle"
    /\ sync = Sync0
    /\ lookups = <<>>
    /\ run = Run0

(***************************************************************************)
(* SpecLedger: one process calling the ledger while the clock advances.    *)
(* Each call is one transaction of cache.py.                               *)
(***************************************************************************)
LedgerIds == {"a", "b"}
TickDays == {1, 7}

InitLedger ==
    /\ now = 0
    /\ ledger = EmptyLedger
    /\ cache = EmptyCache
    /\ proc = Proc0
    /\ hist = Hist0
    /\ SyncUnused

NotRunning == pc \in {"idle", "done", "failed"}

\* the clock advances by d days (between runs of sync_playlist)
Tick(d) ==
    /\ NotRunning
    /\ run.no < MaxRuns
    /\ now + d <= MaxTime
    /\ now' = now + d
    /\ hist' = [hist EXCEPT !.cold = TRUE]
    /\ UNCHANGED <<ledger, cache, proc>>
    /\ UNCHANGED syncVars

\* bookkeeping of a failure recorded for track_id
HistAfterFailure(track_id) ==
    IF ledger[track_id] # NoRecord
    THEN [hist EXCEPT !.removed[track_id] = 0, !.removedActive[track_id] = FALSE]
    ELSE hist

\* bookkeeping of a deletion of the record of track_id
HistAfterRemove(track_id) ==
    IF ledger[track_id] # NoRecord
    THEN [hist EXCEPT
            !.removed[track_id] = ledger[track_id].failure_count,
            !.removedActive[track_id] = ledger[track_id].next_retry > now]
    ELSE hist

\* failure_cache.cache_match_failure(track_id) in one transaction
CacheMatchFailure(track_id) ==
    /\ ledger[track_id].failure_count < MaxFailureCount
    /\ ledger' = [ledger EXCEPT
                    ![track_id] = cache_match_failure_row(ledger[track_id], "None", now)]
    /\ hist' = HistAfterFailure(track_id)
    /\ UNCHANGED <<now, cache, proc>>
    /\ UNCHANGED syncVars

\* failure_cache.remove_match_failure(track_id)
RemoveMatchFailure(track_id) ==
    /\ ledger' = remove_match_failure(ledger, track_id)
    /\ hist' = HistAfterRemove(track_id)
    /\ UNCHANGED <<now, cache, proc>>
    /\ UNCHANGED syncVars

\* main.py clear_track_failure: DELETE /api/cache/failures/{track_id}
ClearTrackFailure(track_id) ==
    /\ ledger' = remove_match_failure(ledger, track_id)
    /\ cache' = cache_remove(cache, track_id)
    /\ hist' = HistAfterRemove(track_id)
    /\ UNCHANGED <<now, proc>>
    /\ UNCHANGED syncVars

NextLedger ==
    \/ \E d \in TickDays : Tick(d)
    \/ \E id \in LedgerIds : CacheMatchFailure(id)
    \/ \E id \in LedgerIds : RemoveMatchFailure(id)
    \/ \E id \in LedgerIds : ClearTrackFailure(id)

SpecLedger == InitLedger /\ [][NextLedger]_vars

(***************************************************************************)
(* SpecConc: two processes sharing the sqlite file, each running           *)
(* cache_match_failure as the code does: a SELECT of the row, then an      *)
(* UPDATE or INSERT computed from the row fetched.  A write that finds the *)
(* row as fetched succeeds.  A write that finds the row changed by the     *)
(* other process either raises (sqlite reports the database as locked, or  *)
(* the INSERT violates the primary key) or, for an UPDATE, overwrites the  *)
(* row with the values computed from the stale row: which of the two       *)
(* depends on when the driver opens the transaction.                       *)
(***************************************************************************)
CallsOf(p) == proc[p].calls["a"] + proc[p].calls["b"]

InitConc ==
    /\ now = 0
    /\ ledger = EmptyLedger
    /\ cache = EmptyCache
    /\ proc = Proc0
    /\ hist = Hist0
    /\ SyncUnused

\* cache.py 70-75: connection.execute(fetch_statement).fetchone()
Fetch(p, track_id) ==
    /\ proc[p].pc = "idle"
    /\ CallsOf(p) < MaxCalls
    /\ proc' = [proc EXCEPT ![p].pc = "fetched", ![p].id = track_id,
                            ![p].snap = ledger[track_id],
                            ![p].calls[track_id] = @ + 1]
    /\ UNCHANGED <<now, ledger, cache, hist>>
    /\ UNCHANGED syncVars

\* cache.py 77-96: the UPDATE / INSERT and the commit
Write(p) ==
    LET id == proc[p].id
        snap == proc[p].snap
        row == cache_match_failure_row(snap, "None", now)
    IN  /\ proc[p].pc = "fetched"
        /\ \/ snap = ledger[id]
           \/ snap # NoRecord
        /\ ledger' =
             IF snap = NoRecord THEN [ledger EXCEPT ![id] = row]
             ELSE IF ledger[id] = NoRecord THEN ledger
             ELSE [ledger EXCEPT ![id].next_retry = row.next_retry,
                                 ![id].failure_count = row.failure_count,
                                 ![id].last_error = row.last_error]
        /\ proc' = [proc EXCEPT ![p].pc = "idle"]
        /\ UNCHANGED <<now, cache, hist>>
        /\ UNCHANGED syncVars

\* the write of a process whose fetched row is stale raises; the
\* transaction is rolled back
WriteRaises(p) ==
    /\ proc[p].pc = "fetched"
    /\ proc[p].snap # ledger[proc[p].id]
    /\ proc' = [proc EXCEPT ![p].pc = "idle", ![p].raised = @ + 1]
    /\ UNCHANGED <<now, ledger, cache, hist>>
    /\ UNCHANGED syncVars

NextConc ==
    \/ \E d \in TickDays : Tick(d)
    \/ \E p \in Procs, id \in LedgerIds : Fetch(p, id)
    \/ \E p \in Procs : Write(p)
    \/ \E p \in Procs : WriteRaises(p)

SpecConc == InitConc /\ [][NextConc]_vars

(***************************************************************************)
(* SpecSync: runs of sync_playlist on one source playlist, one after the   *)
(* other, in a server process that may restart between runs (the cache is  *)
(* lost, the ledger and the target account stay).  The lookups of a batch  *)
(* run as asyncio tasks: each is started in list order and runs up to its  *)
(* first remote search; the searches then return in any order.             *)
(***************************************************************************)

KeyOrder == <<"A", "B", "C", "D", "E">>
IsAscending(s) == \A a, b \in 1..Len(s) : a < b => s[a] < s[b]

\* the source playlists a behaviour may sync: up to MaxTracks tracks of the
\* catalog, each at most once, in catalog order
PlaylistChoices ==
    { [j \in 1..Len(s) |-> KeyOrder[s[j]]] :
        s \in {q \in UNION {[1..n -> 1..Len(KeyOrder)] : n \in 0..MaxTracks} :
                 IsAscending(q)} }

\* the target accounts a behaviour may start from
TargetChoices ==
    { <<>>,
      <<[name |-> "P", tracks |-> <<2, 1>>]>>,
      <<[name |-> "Q", tracks |-> <<1>>], [name |-> "P", tracks |-> <<1, 2, 3>>]>> }

InitSync ==
    /\ now = 0
    /\ ledger = EmptyLedger
    /\ cache = EmptyCache
    /\ proc = Proc0
    /\ hist = Hist0
    /\ playlist_data \in {[name |-> "P", tracks |-> t] : t \in PlaylistChoices}
    /\ batch_size \in 1..MaxBatchSize
    /\ tidal_playlists \in TargetChoices
    /\ chunks = Chunks0
    /\ SideUnused
    /\ pc = "idle"
    /\ sync = Sync0
    /\ lookups = <<>>
    /\ run = Run0

spotify_tracks == playlist_data.tracks
PlaylistIds == {Source(k).id : k \in Range(spotify_tracks)} \ {""}

\* d days pass between two runs
Elapse(d) ==
    /\ run.no > 0
    /\ ~hist.cold
    /\ Tick(d)

\* the server process restarts: track_match_cache starts empty
Restart ==
    /\ NotRunning
    /\ run.no < MaxRuns
    /\ cache # EmptyCache
    /\ cache' = EmptyCache
    /\ hist' = [hist EXCEPT !.cold = TRUE]
    /\ UNCHANGED <<now, ledger, proc>>
    /\ UNCHANGED syncVars

\* sync_playlist without the early return for a playlist without tracks
StartSync_NoSkip ==
    /\ NotRunning
    /\ run.no < MaxRuns
    /\ run' = [Run0 EXCEPT !.no = run.no + 1,
                           !.skipped = (spotify_tracks = <<>>),
                           !.cold = hist.cold,
                           !.count0 = [id \in TrackIds |-> ledger[id].failure_count]]
    /\ hist' = [hist EXCEPT !.prevDone = (pc = "done" /\ ~run.skipped),
                            !.prevClean = (run.raised = 0),
                            !.cold = FALSE]
    /\ sync' = Sync0
    /\ lookups' = <<>>
    /\ pc' = "loading"
    /\ UNCHANGED <<now, ledger, cache, proc, chunks, sideVars, playlist_data, batch_size, tidal_playlists>>

\* sync.py 204-226: sync_playlist is called; a playlist without tracks
\* returns at once
StartSync ==
    /\ NotRunning
    /\ run.no < MaxRuns
    /\ run' = [Run0 EXCEPT !.no = run.no + 1,
                           !.skipped = (spotify_tracks = <<>>),
                           !.cold = hist.cold,
                           !.count0 = [id \in TrackIds |-> ledger[id].failure_count]]
    /\ hist' = [hist EXCEPT !.prevDone = (pc = "done" /\ ~run.skipped),
                            !.prevClean = (run.raised = 0),
                            !.cold = FALSE]
    /\ sync' = Sync0
    /\ lookups' = <<>>
    /\ pc' = IF spotify_tracks = <<>> THEN "done" ELSE "loading"
    /\ UNCHANGED <<now, ledger, cache, proc, chunks, sideVars, playlist_data, batch_size, tidal_playlists>>

\* sync.py 229-240: the playlists are loaded, the playlist of that name is
\* looked up and its tracks are loaded, or it is created empty
LoadOk ==
    LET Named(pl) == pl.name = playlist_data.name
        idx == FirstIndex([j \in 1..Len(tidal_playlists) |-> Named(tidal_playlists[j])])
    IN  /\ pc = "loading"
        /\ IF idx # 0
           THEN /\ sync' = [sync EXCEPT !.playlist = idx,
                                        !.old_tidal_tracks = tidal_playlists[idx].tracks]
                /\ UNCHANGED tidal_playlists
           ELSE /\ tidal_playlists' =
                       Append(tidal_playlists,
                              [name |-> playlist_data.name, tracks |-> <<>>])
                /\ sync' = [sync EXCEPT !.playlist = Len(tidal_playlists) + 1,
                                        !.old_tidal_tracks = <<>>]
        /\ pc' = "seeding"
        /\ UNCHANGED <<now, ledger, cache, proc, chunks, sideVars, hist, playlist_data, batch_size,
                       lookups, run>>

\* the load goes on with the pages it got: the playlist's tracks but the last
LoadFails_Partial ==
    LET Named(pl) == pl.name = playlist_data.name
        idx == FirstIndex([j \in 1..Len(tidal_playlists) |-> Named(tidal_playlists[j])])
        tracks == tidal_playlists[idx].tracks
    IN  /\ pc = "loading"
        /\ idx # 0
        /\ tracks # <<>>
        /\ sync' = [sync EXCEPT !.playlist = idx,
                                !.old_tidal_tracks = SubSeq(tracks, 1, Len(tracks) - 1)]
        /\ pc' = "seeding"
        /\ UNCHANGED <<now, ledger, cache, proc, chunks, sideVars, hist, playlist_data, batch_size,
                       tidal_playlists, lookups, run>>

\* sync.py 229, 235: the page request of get_all_playlists or of
\* get_all_playlist_tracks raises, _get_all_chunks raises with it and
\* sync_playlist ends with the exception
LoadFails ==
    /\ pc = "loading"
    /\ pc' = "failed"
    /\ UNCHANGED <<now, ledger, cache, proc, chunks, sideVars, hist, playlist_data, batch_size,
                   tidal_playlists, sync, lookups, run>>

\* sync.py 243: populate_track_match_cache(spotify_tracks, old_tidal_tracks)
Seed ==
    /\ pc = "seeding"
    /\ cache' = populate_track_match_cache(cache, spotify_tracks, sync.old_tidal_tracks)
    /\ pc' = "selecting"
    /\ UNCHANGED <<now, ledger, proc, chunks, sideVars, hist, playlist_data, batch_size,
                   tidal_playlists, sync, lookups, run>>

\* sync.py 185-195: get_new_spotify_tracks; nothing to search returns
SelectNew ==
    LET tracks_to_search == get_new_spotify_tracks(cache, ledger, now, spotify_tracks)
    IN  /\ pc = "selecting"
        /\ sync' = [sync EXCEPT !.tracks_to_search = tracks_to_search]
        /\ lookups' = [j \in 1..Len(tracks_to_search) |->
                         [st |-> "new", artist |-> 0, ret |-> 0,
                          writes |-> 0, inserts |-> 0]]
        /\ run' = [run EXCEPT
                     !.cached0 = {id \in PlaylistIds : cache[id] # 0},
                     !.held0 = {id \in PlaylistIds : has_match_failure(ledger, id, now)}]
        /\ pc' = IF tracks_to_search = <<>> THEN "diffing" ELSE "batch"
        /\ UNCHANGED <<now, ledger, cache, proc, chunks, sideVars, hist, playlist_data, batch_size,
                       tidal_playlists>>

\* a batch that takes in every track from offset i on
InBatch_Eager(j) ==
    /\ sync.i < j
    /\ j <= Len(sync.tracks_to_search)

\* a batch of batch_size + 1 tracks
InBatch_Wide(j) ==
    /\ sync.i < j
    /\ j <= sync.i + batch_size + 1
    /\ j <= Len(sync.tracks_to_search)

\* sync.py 60-61: index j lies in the current batch spotify_tracks[i:i+batch_size]
InBatch(j) ==
    /\ sync.i < j
    /\ j <= sync.i + batch_size
    /\ j <= Len(sync.tracks_to_search)

BatchIndices == {j \in 1..Len(sync.tracks_to_search) : InBatch(j)}

\* the value gather puts in place of the result of a lookup that raised
Exc == -1

\* lookup j returns ret (Exc: it raises); writes / inserts count its
\* failure-ledger writes and its track_match_cache inserts
Returned(j, ret) == [lookups EXCEPT ![j].st = "returned", ![j].ret = ret]

\* lookup j returns None after cache_match_failure(track_id)
GaveUp(j, track_id) ==
    [lookups EXCEPT ![j].st = "returned", ![j].ret = 0,
                    ![j].writes = IF track_id # "" THEN @ + 1 ELSE @]

\* lookup j returns tidal_id after track_match_cache.insert
Matched(j, track_id, tidal_id) ==
    [lookups EXCEPT ![j].st = "returned", ![j].ret = tidal_id,
                    ![j].inserts = IF track_id # "" THEN @ + 1 ELSE @]

\* sync.py 123-130: no artist's search held a match: the failure is cached
LedgerAfterNoMatch(track_id) ==
    IF track_id # ""
    THEN [ledger EXCEPT
            ![track_id] = cache_match_failure_row(ledger[track_id], "None", now)]
    ELSE ledger

\* sync.py 83-108: the task of lookup j starts and runs up to its first
\* remote search
LookupStart(j) ==
    LET spotify_track == Source(sync.tracks_to_search[j])
        track_id == spotify_track.id
    IN  /\ pc = "batch"
        /\ InBatch(j)
        /\ lookups[j].st = "new"
        /\ \A m \in BatchIndices : m < j => lookups[m].st # "new"
        /\ IF track_id # "" /\ has_match_failure(ledger, track_id, now)
           THEN /\ lookups' = Returned(j, 0)
                /\ sync' = [sync EXCEPT !.completed = Append(@, j)]
                /\ UNCHANGED <<ledger, run>>
           ELSE IF spotify_track.artists = <<>>
           THEN /\ lookups' = GaveUp(j, track_id)
                /\ sync' = [sync EXCEPT !.completed = Append(@, j)]
                /\ ledger' = LedgerAfterNoMatch(track_id)
                /\ UNCHANGED run
           ELSE /\ lookups' = [lookups EXCEPT ![j].st = "searching", ![j].artist = 1]
                /\ run' = [run EXCEPT !.searched = @ \cup {track_id}]
                /\ UNCHANGED <<ledger, sync>>
        /\ UNCHANGED <<now, cache, proc, chunks, sideVars, hist, playlist_data, batch_size,
                       tidal_playlists, pc>>

\* sync.py 100-130 after the search for the current artist held no match
\* or raised: the next artist is searched, or the lookup gives up
NextArtistOrGiveUp(j) ==
    LET spotify_track == Source(sync.tracks_to_search[j])
    IN  IF lookups[j].artist < Len(spotify_track.artists)
        THEN /\ lookups' = [lookups EXCEPT ![j].artist = @ + 1]
             /\ UNCHANGED <<ledger, sync>>
        ELSE /\ lookups' = GaveUp(j, spotify_track.id)
             /\ sync' = [sync EXCEPT !.completed = Append(@, j)]
             /\ ledger' = LedgerAfterNoMatch(spotify_track.id)

\* sync.py 106-117: the search of lookup j for its current artist returns
SearchReturns(j) ==
    LET spotify_track == Source(sync.tracks_to_search[j])
        track_id == spotify_track.id
        search_results == Search(simple(spotify_track.name),
                                 simple(spotify_track.artists[lookups[j].artist]))
        tidal_id == FirstMatch(search_results, spotify_track)
    IN  /\ pc = "batch"
        /\ InBatch(j)
        /\ lookups[j].st = "searching"
        /\ \A m \in BatchIndices : lookups[m].st # "new"
        /\ IF tidal_id # 0
           THEN /\ cache' = IF track_id # ""
                            THEN cache_insert(cache, track_id, tidal_id) ELSE cache
                /\ lookups' = Matched(j, track_id, tidal_id)
                /\ sync' = [sync EXCEPT !.completed = Append(@, j)]
                /\ UNCHANGED ledger
           ELSE /\ NextArtistOrGiveUp(j)
                /\ UNCHANGED cache
        /\ UNCHANGED <<now, proc, chunks, sideVars, hist, playlist_data, batch_size,
                       tidal_playlists, pc, run>>

\* sync.py 119-121: the search of lookup j for its current artist raises
SearchRaises(j) ==
    /\ pc = "batch"
    /\ InBatch(j)
    /\ lookups[j].st = "searching"
    /\ \A m \in BatchIndices : lookups[m].st # "new"
    /\ run.raised < MaxRaises
    /\ NextArtistOrGiveUp(j)
    /\ run' = [run EXCEPT !.raised = @ + 1]
    /\ UNCHANGED <<now, cache, proc, chunks, sideVars, hist, playlist_data, batch_size,
                   tidal_playlists, pc>>

\* sync.py 85-86, 123-128: a ledger call of lookup j raises (sqlite reports
\* an error): has_match_failure when the lookup starts, or
\* cache_match_failure when the last artist's search held no match; the
\* exception leaves tidal_search_single
LookupRaises(j) ==
    LET spotify_track == Source(sync.tracks_to_search[j])
        tidal_id == FirstMatch(Search(simple(spotify_track.name),
                                      simple(spotify_track.artists[lookups[j].artist])),
                               spotify_track)
    IN  /\ pc = "batch"
        /\ InBatch(j)
        /\ spotify_track.id # ""
        /\ run.raised < MaxRaises
        /\ \/ /\ lookups[j].st = "new"
              /\ \A m \in BatchIndices : m < j => lookups[m].st # "new"
           \/ /\ lookups[j].st = "searching"
              /\ \A m \in BatchIndices : lookups[m].st # "new"
              /\ lookups[j].artist = Len(spotify_track.artists)
              /\ tidal_id = 0
        /\ lookups' = Returned(j, Exc)
        /\ sync' = [sync EXCEPT !.completed = Append(@, j)]
        /\ run' = [run EXCEPT !.raised = @ + 1]
        /\ UNCHANGED <<now, ledger, cache, proc, chunks, sideVars, hist, playlist_data, batch_size,
                       tidal_playlists, pc>>

\* asyncio.gather in completion order instead of argument order
BatchResults_AsCompleted(lo, hi) ==
    [j \in 1..(hi - lo) |->
        IF lookups[sync.completed[j]].ret = Exc THEN 0
        ELSE lookups[sync.completed[j]].ret]

\* the loop of sync.py 68-73 without the isinstance test
BatchResults_KeepException(lo, hi) == [j \in 1..(hi - lo) |-> lookups[lo + j].ret]

\* sync.py 62-73: the results of the batch lo+1..hi as gather returns them,
\* an exception replaced by None
BatchResults(lo, hi) ==
    [j \in 1..(hi - lo) |->
        IF lookups[lo + j].ret = Exc THEN 0 ELSE lookups[lo + j].ret]

\* the batch is collected as soon as one of its lookups has returned
BatchCollect_Early ==
    LET hi == Min(sync.i + batch_size, Len(sync.tracks_to_search))
    IN  /\ pc = "batch"
        /\ \E m \in BatchIndices : lookups[m].st = "returned"
        /\ sync' = [sync EXCEPT !.search_results = @ \o BatchResults(sync.i, hi)]
        /\ run' = [run EXCEPT !.outOfOrder = @ \/ ~IsAscending(sync.completed)]
        /\ pc' = IF sync.i + batch_size < Len(sync.tracks_to_search)
                 THEN "sleeping" ELSE "found"
        /\ UNCHANGED <<now, ledger, cache, proc, chunks, sideVars, hist, playlist_data, batch_size,
                       tidal_playlists, lookups>>

\* sync.py 62-77: every lookup of the batch has returned
BatchCollect ==
    LET hi == Min(sync.i + batch_size, Len(sync.tracks_to_search))
    IN  /\ pc = "batch"
        /\ \A m \in BatchIndices : lookups[m].st = "returned"
        /\ sync' = [sync EXCEPT !.search_results = @ \o BatchResults(sync.i, hi)]
        /\ run' = [run EXCEPT !.outOfOrder = @ \/ ~IsAscending(sync.completed)]
        /\ pc' = IF sync.i + batch_size < Len(sync.tracks_to_search)
                 THEN "sleeping" ELSE "found"
        /\ UNCHANGED <<now, ledger, cache, proc, chunks, sideVars, hist, playlist_data, batch_size,
                       tidal_playlists, lookups>>

\* sync.py 76-77, 60: the delay between two batches has elapsed
Sleep ==
    /\ pc = "sleeping"
    /\ sync' = [sync EXCEPT !.i = @ + batch_size, !.completed = <<>>]
    /\ pc' = "batch"
    /\ UNCHANGED <<now, ledger, cache, proc, chunks, sideVars, hist, playlist_data, batch_size,
                   tidal_playlists, lookups, run>>

\* sync.py 197-201 from index idx on: the matches found are inserted
RECURSIVE InsertFound(_, _, _, _)
InsertFound(c, tracks_to_search, search_results, idx) ==
    IF idx > Len(tracks_to_search) THEN c
    ELSE InsertFound(
             IF search_results[idx] # 0
             THEN cache_insert(c, Source(tracks_to_search[idx]).id, search_results[idx])
             ELSE c,
             tracks_to_search, search_results, idx + 1)

\* sync.py 195-201: tidal_search_batch has returned
PostSearch ==
    /\ pc = "found"
    /\ cache' = InsertFound(cache, sync.tracks_to_search, sync.search_results, 1)
    /\ lookups' = [j \in 1..Len(lookups) |->
                     IF sync.search_results[j] # 0
                     THEN [lookups[j] EXCEPT !.inserts = @ + 1]
                     ELSE lookups[j]]
    /\ pc' = "diffing"
    /\ UNCHANGED <<now, ledger, proc, chunks, sideVars, hist, playlist_data, batch_size,
                   tidal_playlists, sync, run>>

\* sync.py 252 with the test left out
NeedsUpdate_Always(new_tidal_track_ids, old_tidal_track_ids) == TRUE

\* sync.py 252: new_tidal_track_ids != old_tidal_track_ids
NeedsUpdate(new_tidal_track_ids, old_tidal_track_ids) ==
    new_tidal_track_ids # old_tidal_track_ids

\* sync.py 248-264: the desired list is computed and compared
Diff ==
    LET new_tidal_track_ids == get_tracks_for_new_tidal_playlist(cache, spotify_tracks)
        old_tidal_track_ids == sync.old_tidal_tracks
    IN  /\ pc = "diffing"
        /\ sync' = [sync EXCEPT !.new_tidal_track_ids = new_tidal_track_ids]
        /\ pc' = IF ~NeedsUpdate(new_tidal_track_ids, old_tidal_track_ids) THEN "summary"
                 ELSE IF old_tidal_track_ids # <<>> THEN "clearing"
                 ELSE IF new_tidal_track_ids # <<>> THEN "adding"
                 ELSE "summary"
        /\ UNCHANGED <<now, ledger, cache, proc, chunks, sideVars, hist, playlist_data, batch_size,
                       tidal_playlists, lookups, run>>

\* clear_tidal_playlist sending one DELETE request only
ClearChunk_Once ==
    LET tracks == tidal_playlists[sync.playlist].tracks
        left == SubSeq(tracks, Min(Len(tracks), sync.chunk_size) + 1, Len(tracks))
    IN  /\ pc = "clearing"
        /\ tidal_playlists' = [tidal_playlists EXCEPT ![sync.playlist].tracks = left]
        /\ run' = [run EXCEPT !.clears = @ + 1]
        /\ pc' = IF sync.new_tidal_track_ids # <<>> THEN "adding" ELSE "summary"
        /\ UNCHANGED <<now, ledger, cache, proc, chunks, sideVars, hist, playlist_data, batch_size,
                       sync, lookups>>

\* tidalapi_patch.py 18-23: one DELETE request of clear_tidal_playlist
ClearChunk ==
    LET tracks == tidal_playlists[sync.playlist].tracks
        left == SubSeq(tracks, Min(Len(tracks), sync.chunk_size) + 1, Len(tracks))
    IN  /\ pc = "clearing"
        /\ tidal_playlists' = [tidal_playlists EXCEPT ![sync.playlist].tracks = left]
        /\ run' = [run EXCEPT !.clears = @ + 1]
        /\ pc' = IF left # <<>> THEN "clearing"
                 ELSE IF sync.new_tidal_track_ids # <<>> THEN "adding"
                 ELSE "summary"
        /\ UNCHANGED <<now, ledger, cache, proc, chunks, sideVars, hist, playlist_data, batch_size,
                       sync, lookups>>

\* tidalapi_patch.py 25-32: one playlist.add request of
\* add_multiple_tracks_to_playlist
AddChunk ==
    LET track_ids == sync.new_tidal_track_ids
        count == Min(sync.chunk_size, Len(track_ids) - sync.offset)
        chunk == SubSeq(track_ids, sync.offset + 1,
                        Min(sync.offset + sync.chunk_size, Len(track_ids)))
    IN  /\ pc = "adding"
        /\ tidal_playlists' = [tidal_playlists EXCEPT ![sync.playlist].tracks = @ \o chunk]
        /\ sync' = [sync EXCEPT !.offset = @ + count]
        /\ run' = [run EXCEPT !.adds = @ + 1]
        /\ pc' = IF sync.offset + count < Len(track_ids) THEN "adding" ELSE "summary"
        /\ UNCHANGED <<now, ledger, cache, proc, chunks, sideVars, hist, playlist_data, batch_size,
                       lookups>>

\* a failing request after which the previous membership is put back
ApplyFails_Restore ==
    /\ pc \in {"clearing", "adding"}
    /\ pc' = "failed"
    /\ tidal_playlists' = [tidal_playlists EXCEPT
                             ![sync.playlist].tracks = sync.old_tidal_tracks]
    /\ UNCHANGED <<now, ledger, cache, proc, chunks, sideVars, hist, playlist_data, batch_size,
                   sync, lookups, run>>

\* a request of clear_tidal_playlist or add_multiple_tracks_to_playlist
\* raises: sync_playlist ends with it
ApplyFails ==
    /\ pc \in {"clearing", "adding"}
    /\ pc' = "failed"
    /\ UNCHANGED <<now, ledger, cache, proc, chunks, sideVars, hist, playlist_data, batch_size,
                   tidal_playlists, sync, lookups, run>>

\* sync.py 266-296: the failure summary is printed and sync_playlist returns
Finish ==
    /\ pc = "summary"
    /\ pc' = "done"
    /\ hist' = [hist EXCEPT
                  !.skippedDay1 = @ \cup
                      {id \in PlaylistIds \ run.searched :
                          /\ has_match_failure(ledger, id, now)
                          /\ ledger[id].failure_count = 1
                          /\ now = ledger[id].insert_time + 1}]
    /\ UNCHANGED <<now, ledger, cache, proc, chunks, sideVars, playlist_data, batch_size,
                   tidal_playlists, sync, lookups, run>>

NextSync ==
    \/ \E d \in TickDays : Elapse(d)
    \/ Restart
    \/ StartSync
    \/ LoadOk
    \/ LoadFails
    \/ Seed
    \/ SelectNew
    \/ \E j \in 1..MaxTracks : LookupStart(j)
    \/ \E j \in 1..MaxTracks : SearchReturns(j)
    \/ \E j \in 1..MaxTracks : SearchRaises(j)
    \/ \E j \in 1..MaxTracks : LookupRaises(j)
    \/ BatchCollect
    \/ Sleep
    \/ PostSearch
    \/ Diff
    \/ ClearChunk
    \/ AddChunk
    \/ ApplyFails
    \/ Finish

SpecSync == InitSync /\ [][NextSync]_vars

(***************************************************************************)
(* SpecChunks: one call of _get_all_chunks on a listing of total items     *)
(* (item k is the k-th of the listing) served in pages of limit items.     *)
(* The extra pages are fetched by threads (asyncio.to_thread) that share   *)
(* the params dict: a thread stores its offset in the dict and the request *)
(* it then makes reads the dict, with other threads running in between.    *)
(***************************************************************************)
\* the page the endpoint serves at offset
Page(offset, limit, total) ==
    [k \in 1..(IF total - offset < 0 THEN 0 ELSE Min(limit, total - offset)) |->
        offset + k]

\* tidalapi_patch.py 50: the number of offsets limit * n, n >= 1, below total
NumExtra(limit, total) == ((total + limit - 1) \div limit) - 1

RECURSIVE Flatten(_)
\* list.extend over a list of lists
Flatten(lists) ==
    IF lists = <<>> THEN <<>> ELSE Head(lists) \o Flatten(Tail(lists))

InitChunks ==
    /\ now = 0
    /\ ledger = EmptyLedger
    /\ cache = EmptyCache
    /\ proc = Proc0
    /\ hist = Hist0
    /\ playlist_data = [name |-> "P", tracks |-> <<>>]
    /\ batch_size = 1
    /\ tidal_playlists = <<>>
    /\ pc = "idle"
    /\ sync = Sync0
    /\ lookups = <<>>
    /\ run = Run0
    /\ SideUnused
    /\ chunks \in {[Chunks0 EXCEPT !.total = t, !.limit = l] :
                      t \in 0..MaxItems, l \in 1..MaxLimit}

chunkOther == <<now, ledger, cache, proc, hist, playlist_data, batch_size,
                tidal_playlists, pc, sync, lookups, run, sideVars>>

\* tidalapi_patch.py 44-56: the first request returns
FirstRequest ==
    LET items == Page(0, chunks.limit, chunks.total)
        more == Len(items) < chunks.total
    IN  /\ chunks.pc = "idle"
        /\ chunks' = [chunks EXCEPT
                        !.offset = 0,
                        !.requested = <<0>>,
                        !.items = items,
                        !.pages = IF more
                                  THEN [n \in 1..NumExtra(chunks.limit, chunks.total) |->
                                          [st |-> "new", got |-> <<>>]]
                                  ELSE <<>>,
                        !.pc = IF more THEN "gather" ELSE "returned",
                        !.result = IF more THEN <<>> ELSE items]
        /\ UNCHANGED chunkOther

\* tidalapi_patch.py 44: the first request raises
FirstRequestFails ==
    /\ chunks.pc = "idle"
    /\ chunks' = [chunks EXCEPT !.offset = 0, !.pc = "raised"]
    /\ UNCHANGED chunkOther

\* tidalapi_patch.py 40-41: the thread of extra page n stores its offset in
\* the shared params
PageSetOffset(n) ==
    /\ chunks.pc = "gather"
    /\ n \in 1..Len(chunks.pages)
    /\ chunks.pages[n].st = "new"
    /\ chunks' = [chunks EXCEPT !.offset = chunks.limit * n,
                                !.pages[n].st = "set"]
    /\ UNCHANGED chunkOther

\* tidalapi_patch.py 42, 52: the request of the thread of page n is built
\* from params as they are now, and its response is parsed
PageRequest(n) ==
    /\ chunks.pc = "gather"
    /\ n \in 1..Len(chunks.pages)
    /\ chunks.pages[n].st = "set"
    /\ chunks' = [chunks EXCEPT
                    !.requested = Append(@, chunks.offset),
                    !.pages[n] = [st |-> "done",
                                  got |-> Page(chunks.offset, chunks.limit, chunks.total)],
                    !.completed = Append(@, n)]
    /\ UNCHANGED chunkOther

\* tidalapi_patch.py 42, 52: the request of the thread of page n raises
PageFails(n) ==
    /\ chunks.pc = "gather"
    /\ n \in 1..Len(chunks.pages)
    /\ chunks.pages[n].st = "set"
    /\ chunks' = [chunks EXCEPT !.requested = Append(@, chunks.offset),
                                !.pages[n].st = "failed"]
    /\ UNCHANGED chunkOther

\* tqdm's gather handing the results over in completion order
atqdm_gather_AsCompleted(pages, completed) ==
    [n \in 1..Len(pages) |-> pages[completed[n]].got]

\* tidalapi_patch.py 51-54: atqdm.gather returns the results in the order of
\* its arguments
atqdm_gather(pages, completed) == [n \in 1..Len(pages) |-> pages[n].got]

\* tidalapi_patch.py 51-57: every thread is through, the pages are appended
\* and the list is returned
Gather ==
    /\ chunks.pc = "gather"
    /\ \A n \in 1..Len(chunks.pages) : chunks.pages[n].st = "done"
    /\ LET items == chunks.items
                      \o Flatten(atqdm_gather(chunks.pages, chunks.completed))
       IN  chunks' = [chunks EXCEPT !.items = items, !.result = items,
                                    !.pc = "returned"]
    /\ UNCHANGED chunkOther

\* tidalapi_patch.py 51-54: the exception of a thread leaves gather and
\* _get_all_chunks
GatherRaises ==
    /\ chunks.pc = "gather"
    /\ \E n \in 1..Len(chunks.pages) : chunks.pages[n].st = "failed"
    /\ chunks' = [chunks EXCEPT !.pc = "raised"]
    /\ UNCHANGED chunkOther

NextChunks ==
    \/ FirstRequest
    \/ FirstRequestFails
    \/ \E n \in 1..MaxItems : PageSetOffset(n)
    \/ \E n \in 1..MaxItems : PageRequest(n)
    \/ \E n \in 1..MaxItems : PageFails(n)
    \/ Gather
    \/ GatherRaises

SpecChunks == InitChunks /\ [][NextChunks]_vars

(***************************************************************************)
(* SpecLike: requests to like_songs_on_tidal (main.py), one after the      *)
(* other in one server process.  The handler awaits tidal_search_single    *)
(* for each track of the request in turn and adds the track found to the   *)
(* account's favorites.                                                    *)
(***************************************************************************)
MaxRequests == 2
MaxLiked == 2

\* request.tracks: up to MaxLiked keys of the source catalog, the record
\* without artists among them
LikeChoices ==
    UNION {[1..n -> SourceKeys \cup ArtistlessKeys] : n \in 1..MaxLiked}

InitLike ==
    /\ now = 0
    /\ ledger = EmptyLedger
    /\ cache = EmptyCache
    /\ proc = Proc0
    /\ hist = Hist0
    /\ SyncUnused

likeOther == <<proc, hist, playlist_data, batch_size, tidal_playlists, pc, sync,
               lookups, run, chunks, matching, seeding, transfer, simplifying>>

\* the clock advances by d days between two requests
LikeTick(d) ==
    /\ like.pc = "idle"
    /\ like.requests > 0
    /\ Tick(d)

\* main.py 291-311: a request arrives
LikeRequest(tracks) ==
    /\ like.pc = "idle"
    /\ like.requests < MaxRequests
    /\ like' = [Like0 EXCEPT !.requests = like.requests + 1, !.tracks = tracks,
                             !.i = 1, !.pc = "lookup", !.raised = like.raised,
                             !.favorites = like.favorites]
    /\ UNCHANGED <<now, ledger, cache>>
    /\ UNCHANGED likeOther

\* main.py 312-334: the handler goes on to the next track of the request,
\* or returns
NextTrack(l) ==
    [l EXCEPT !.i = @ + 1,
              !.pc = IF l.i < Len(l.tracks) THEN "lookup" ELSE "idle"]

\* main.py 321-326, 327-331: the track is reported as failed
Failed(l) == [l EXCEPT !.failed_tracks = Append(@, l.tracks[l.i])]

\* a search for artist number n of the lookup is issued
Query(n) == [artist |-> n, raised |-> FALSE, results |-> <<>>]

\* sync.py 81-108: tidal_search_single is called for tracks[i] and runs up
\* to its first remote search; the hold and the cache are consulted first
LikeLookupStart ==
    LET spotify_track == Source(like.tracks[like.i])
        track_id == spotify_track.id
        called == [like EXCEPT !.track = like.tracks[like.i], !.queries = <<>>,
                               !.artist = 0, !.ret = 0]
    IN  /\ like.pc = "lookup"
        /\ IF track_id # "" /\ has_match_failure(ledger, track_id, now)
           THEN /\ like' = NextTrack(Failed(called))
                /\ UNCHANGED ledger
           ELSE IF spotify_track.artists = <<>>
           THEN /\ like' = NextTrack(Failed(called))
                /\ ledger' = LedgerAfterNoMatch(track_id)
           ELSE /\ like' = [called EXCEPT !.pc = "searching", !.artist = 1,
                                          !.queries = <<Query(1)>>]
                /\ UNCHANGED ledger
        /\ UNCHANGED <<now, cache>>
        /\ UNCHANGED likeOther

\* sync.py 100-130 after the search for the current artist held no match
\* or raised: the next artist is searched, or the lookup caches the failure
\* and returns None, which the handler reports
LikeNextArtistOrGiveUp(l) ==
    LET spotify_track == Source(l.track)
    IN  IF l.artist < Len(spotify_track.artists)
        THEN /\ like' = [l EXCEPT !.artist = @ + 1,
                                  !.queries = Append(@, Query(l.artist + 1))]
             /\ UNCHANGED ledger
        ELSE /\ like' = NextTrack(Failed([l EXCEPT !.ret = 0]))
             /\ ledger' = LedgerAfterNoMatch(spotify_track.id)

\* sync.py 106-117: the search for the current artist returns
LikeSearchReturns ==
    LET spotify_track == Source(like.track)
        track_id == spotify_track.id
        search_results == Search(simple(spotify_track.name),
                                 simple(spotify_track.artists[like.artist]))
        tidal_id == FirstMatch(search_results, spotify_track)
        answered == [like EXCEPT !.queries[like.artist].results = search_results]
    IN  /\ like.pc = "searching"
        /\ IF tidal_id # 0
           THEN /\ cache' = IF track_id # ""
                            THEN cache_insert(cache, track_id, tidal_id) ELSE cache
                /\ like' = [answered EXCEPT !.ret = tidal_id, !.pc = "adding"]
                /\ UNCHANGED ledger
           ELSE /\ LikeNextArtistOrGiveUp(answered)
                /\ UNCHANGED cache
        /\ UNCHANGED now
        /\ UNCHANGED likeOther

\* a search that raises ends the lookup without a record in the ledger
LikeSearchRaises_NoRecord ==
    /\ like.pc = "searching"
    /\ like.raised < MaxRaises
    /\ like' = NextTrack(Failed([like EXCEPT !.queries[like.artist].raised = TRUE,
                                             !.raised = @ + 1, !.ret = 0]))
    /\ UNCHANGED <<now, ledger, cache>>
    /\ UNCHANGED likeOther

\* sync.py 119-121: the search for the current artist raises
LikeSearchRaises ==
    /\ like.pc = "searching"
    /\ like.raised < MaxRaises
    /\ LikeNextArtistOrGiveUp([like EXCEPT !.queries[like.artist].raised = TRUE,
                                           !.raised = @ + 1])
    /\ UNCHANGED <<now, cache>>
    /\ UNCHANGED likeOther

\* sync.py 85-86, 123-128 and main.py 327-331: a ledger call of the lookup
\* raises; the exception leaves tidal_search_single and the handler reports
\* the track
LikeLookupRaises ==
    LET key == IF like.pc = "lookup" THEN like.tracks[like.i] ELSE like.track
        spotify_track == Source(key)
        tidal_id == FirstMatch(Search(simple(spotify_track.name),
                                      simple(spotify_track.artists[like.artist])),
                               spotify_track)
        raised == [like EXCEPT !.track = key, !.ret = Exc, !.raised = @ + 1]
    IN  /\ spotify_track.id # ""
        /\ like.raised < MaxRaises
        /\ \/ /\ like.pc = "lookup"
              /\ like' = NextTrack(Failed([raised EXCEPT !.queries = <<>>,
                                                         !.artist = 0]))
           \/ /\ like.pc = "searching"
              /\ like.artist = Len(spotify_track.artists)
              /\ tidal_id = 0
              /\ like' = NextTrack(Failed(
                            [raised EXCEPT !.queries[like.artist].results =
                                Search(simple(spotify_track.name),
                                       simple(spotify_track.artists[like.artist]))]))
        /\ UNCHANGED <<now, ledger, cache>>
        /\ UNCHANGED likeOther

\* main.py 317-319: favorites.add_track(tidal_track.id) returns
LikeAdd ==
    /\ like.pc = "adding"
    /\ like' = NextTrack([like EXCEPT !.favorites = @ \cup {like.ret},
                                      !.liked_count = @ + 1])
    /\ UNCHANGED <<now, ledger, cache>>
    /\ UNCHANGED likeOther

\* main.py 327-331: favorites.add_track raises
LikeAddRaises ==
    /\ like.pc = "adding"
    /\ like.raised < MaxRaises
    /\ like' = NextTrack(Failed([like EXCEPT !.raised = @ + 1]))
    /\ UNCHANGED <<now, ledger, cache>>
    /\ UNCHANGED likeOther

NextLike ==
    \/ \E d \in TickDays : LikeTick(d)
    \/ \E tracks \in LikeChoices : LikeRequest(tracks)
    \/ LikeLookupStart
    \/ LikeSearchReturns
    \/ LikeSearchRaises
    \/ LikeLookupRaises
    \/ LikeAdd
    \/ LikeAddRaises

SpecLike == InitLike /\ [][NextLike]_vars

(***************************************************************************)
(* SpecSeed: one call of populate_track_match_cache (sync.py 132-157) on   *)
(* a list of source tracks and a list of target tracks, in any order and   *)
(* with repetitions, one loop iteration per step.                          *)
(***************************************************************************)
MaxTargets == 3

SeedSources == UNION {[1..n -> SourceKeys] : n \in 0..MaxTracks}
SeedTargets == UNION {[1..n -> TidalIds] : n \in 0..MaxTargets}

InitSeed ==
    /\ now = 0
    /\ ledger = EmptyLedger
    /\ cache = EmptyCache
    /\ proc = Proc0
    /\ hist = Hist0
    /\ playlist_data = [name |-> "P", tracks |-> <<>>]
    /\ batch_size = 1
    /\ tidal_playlists = <<>>
    /\ pc = "idle"
    /\ sync = Sync0
    /\ lookups = <<>>
    /\ run = Run0
    /\ chunks = Chunks0
    /\ like = Like0
    /\ matching = Matching0
    /\ transfer = Transfer0
    /\ simplifying = Simplifying0
    /\ seeding \in {[Seeding0 EXCEPT !.spotify_tracks_ = s, !.tidal_tracks_ = t,
                                     !.pc = "args"] :
                       s \in SeedSources, t \in SeedTargets}

seedOther == <<now, ledger, proc, hist, playlist_data, batch_size, tidal_playlists,
               pc, sync, lookups, run, chunks, like, matching, transfer,
               simplifying>>

\* sync.py 136, 143: tidal_track.available and match(tidal_track, spotify_track)
SeedHit(tidal_track, spotify_track) ==
    tidal_track.available /\ match(tidal_track, spotify_track)

\* the tracks at the positions s and t of the arguments
SeedSource(s) == Source(seeding.spotify_tracks_[s])
SeedTarget(t) == Tidal(seeding.tidal_tracks_[t])

\* sync.py 148-150: the working copies of the two lists are made
PopulateCall ==
    /\ seeding.pc = "args"
    /\ seeding' = [seeding EXCEPT
                     !.spotify_tracks = [j \in 1..Len(seeding.spotify_tracks_) |-> j],
                     !.tidal_tracks = [j \in 1..Len(seeding.tidal_tracks_) |-> j],
                     !.i = 1, !.pc = "tidal"]
    /\ UNCHANGED cache
    /\ UNCHANGED seedOther

\* sync.py 153-154, 141-146: _populate_one_track_from_tidal for the i-th
\* target track
PopulateOneFromTidal ==
    LET t == seeding.tidal_tracks[seeding.i]
        flags == [j \in 1..Len(seeding.spotify_tracks) |->
                    SeedHit(SeedTarget(t), SeedSource(seeding.spotify_tracks[j]))]
        idx == FirstIndex(flags)
    IN  /\ seeding.pc = "tidal"
        /\ seeding.i <= Len(seeding.tidal_tracks)
        /\ IF idx = 0
           THEN /\ seeding' = [seeding EXCEPT !.i = @ + 1]
                /\ UNCHANGED cache
           ELSE /\ cache' = cache_insert(cache, SeedSource(seeding.spotify_tracks[idx]).id,
                                         SeedTarget(t).id)
                /\ seeding' = [seeding EXCEPT
                                 !.spotify_tracks = RemoveAt(@, idx),
                                 !.hits = Append(@, [s |-> seeding.spotify_tracks[idx],
                                                     t |-> t, loop |-> 1]),
                                 !.i = @ + 1]
        /\ UNCHANGED seedOther

\* sync.py 153-156: the first loop is over
TidalLoopEnds ==
    /\ seeding.pc = "tidal"
    /\ seeding.i > Len(seeding.tidal_tracks)
    /\ seeding' = [seeding EXCEPT !.pc = "spotify", !.i = 1]
    /\ UNCHANGED cache
    /\ UNCHANGED seedOther

\* sync.py 156-157, 134-139: _populate_one_track_from_spotify for the i-th
\* source track left by the first loop
PopulateOneFromSpotify ==
    LET s == seeding.spotify_tracks[seeding.i]
        flags == [j \in 1..Len(seeding.tidal_tracks) |->
                    SeedHit(SeedTarget(seeding.tidal_tracks[j]), SeedSource(s))]
        idx == FirstIndex(flags)
    IN  /\ seeding.pc = "spotify"
        /\ seeding.i <= Len(seeding.spotify_tracks)
        /\ IF idx = 0
           THEN /\ seeding' = [seeding EXCEPT !.i = @ + 1]
                /\ UNCHANGED cache
           ELSE /\ cache' = cache_insert(cache, SeedSource(s).id,
                                         SeedTarget(seeding.tidal_tracks[idx]).id)
                /\ seeding' = [seeding EXCEPT
                                 !.tidal_tracks = RemoveAt(@, idx),
                                 !.hits = Append(@, [s |-> s,
                                                     t |-> seeding.tidal_tracks[idx],
                                                     loop |-> 2]),
                                 !.i = @ + 1]
        /\ UNCHANGED seedOther

\* sync.py 156-157: the second loop is over and the function returns
SpotifyLoopEnds ==
    /\ seeding.pc = "spotify"
    /\ seeding.i > Len(seeding.spotify_tracks)
    /\ seeding' = [seeding EXCEPT !.pc = "done"]
    /\ UNCHANGED cache
    /\ UNCHANGED seedOther

NextSeed ==
    \/ PopulateCall
    \/ PopulateOneFromTidal
    \/ TidalLoopEnds
    \/ PopulateOneFromSpotify
    \/ SpotifyLoopEnds

SpecSeed == InitSeed /\ [][NextSeed]_vars

(***************************************************************************)
(* SpecMatch: one call of match or of one of its helpers (sync.py 24-52)   *)
(* on a candidate and a source record drawn from the sets below.  The      *)
(* source durations lie around the candidate's 200 s, at both edges of the *)
(* tolerance.                                                              *)
(***************************************************************************)
MatchIsrcs == {"", "I1", "I2"}
MatchNames == {N_Yo, N_Up}
MatchArtists == {<<A_Mo>>, <<A_Zed>>}
MatchDurations == {200000 + d : d \in {0 - 3000, 0 - 2999, 0, 2999, 3000}}

MatchTidalTracks ==
    {[id |-> 1, name |-> n, artists |-> a, duration |-> 200, isrc |-> i,
      available |-> TRUE] :
        n \in MatchNames, a \in MatchArtists, i \in MatchIsrcs}

MatchSpotifyTracks ==
    {[id |-> d, name |-> n, artists |-> a, duration |-> ms, isrc |-> i] :
        d \in {"", "a"}, n \in MatchNames, a \in MatchArtists,
        ms \in MatchDurations, i \in MatchIsrcs}

InitMatch ==
    /\ now = 0
    /\ ledger = EmptyLedger
    /\ cache = EmptyCache
    /\ proc = Proc0
    /\ hist = Hist0
    /\ playlist_data = [name |-> "P", tracks |-> <<>>]
    /\ batch_size = 1
    /\ tidal_playlists = <<>>
    /\ pc = "idle"
    /\ sync = Sync0
    /\ lookups = <<>>
    /\ run = Run0
    /\ chunks = Chunks0
    /\ like = Like0
    /\ seeding = Seeding0
    /\ transfer = Transfer0
    /\ simplifying = Simplifying0
    /\ matching \in {[Matching0 EXCEPT !.tidal_track = t, !.spotify_track = s] :
                        t \in MatchTidalTracks, s \in MatchSpotifyTracks}

matchOther == <<now, ledger, cache, proc, hist, playlist_data, batch_size,
                tidal_playlists, pc, sync, lookups, run, chunks, like, seeding,
                transfer, simplifying>>

\* the helper fn is called on the two records and returns result
Called(fn, result) ==
    /\ matching.fn = "none"
    /\ matching' = [matching EXCEPT !.fn = fn, !.result = result]
    /\ UNCHANGED matchOther

CallMatch ==
    Called("match", match(matching.tidal_track, matching.spotify_track))

CallIsrcMatch ==
    Called("isrc_match", isrc_match(matching.tidal_track, matching.spotify_track))

CallDurationMatch ==
    Called("duration_match",
           duration_match(matching.tidal_track, matching.spotify_track))

CallNameMatch ==
    Called("name_match", name_match(matching.tidal_track, matching.spotify_track))

CallArtistMatch ==
    Called("artist_match", artist_match(matching.tidal_track, matching.spotify_track))

NextMatch ==
    \/ CallMatch
    \/ CallIsrcMatch
    \/ CallDurationMatch
    \/ CallNameMatch
    \/ CallArtistMatch

SpecMatch == InitMatch /\ [][NextMatch]_vars

(***************************************************************************)
(* SpecLoad: the Loading phase of sync_playlist (sync.py 228-240) with the *)
(* listing of the account's playlists fetched page by page by              *)
(* _get_all_chunks, in runs that follow one another.  The items of the     *)
(* listing are the positions of tidal_playlists; the page size limit       *)
(* stands for chunk_size = 10 of get_all_playlists.  The playlists of the  *)
(* account are empty, so that the listing of the tracks of the playlist    *)
(* found is a single empty page.                                           *)
(***************************************************************************)
MaxLoads == 2

\* the accounts: up to MaxItems empty playlists, at most one of them named
\* like the source playlist "P"
LoadAccounts ==
    {a \in UNION {[1..n -> {[name |-> "P", tracks |-> <<>>],
                            [name |-> "Q", tracks |-> <<>>]}] : n \in 0..MaxItems} :
        Cardinality({j \in 1..Len(a) : a[j].name = "P"}) <= 1}

InitLoad ==
    /\ now = 0
    /\ ledger = EmptyLedger
    /\ cache = EmptyCache
    /\ proc = Proc0
    /\ hist = Hist0
    /\ playlist_data = [name |-> "P", tracks |-> <<"B">>]
    /\ batch_size = 1
    /\ tidal_playlists \in LoadAccounts
    /\ pc = "idle"
    /\ sync = Sync0
    /\ lookups = <<>>
    /\ run = Run0
    /\ SideUnused
    /\ chunks \in {[Chunks0 EXCEPT !.limit = l] : l \in 1..MaxLimit}

loadOther == <<now, ledger, cache, proc, hist, playlist_data, batch_size, lookups,
               sideVars>>

\* sync.py 204-229: sync_playlist is called and calls get_all_playlists
StartLoad ==
    /\ NotRunning
    /\ chunks.pc \in {"idle", "returned", "raised"}
    /\ run.no < MaxLoads
    /\ run' = [Run0 EXCEPT !.no = run.no + 1]
    /\ sync' = Sync0
    /\ pc' = "loading"
    /\ chunks' = [Chunks0 EXCEPT !.total = Len(tidal_playlists),
                                 !.limit = chunks.limit]
    /\ UNCHANGED tidal_playlists
    /\ UNCHANGED loadOther

\* a step of the _get_all_chunks call of get_all_playlists
LoadListing ==
    /\ pc = "loading"
    /\ \/ FirstRequest
       \/ FirstRequestFails
       \/ \E n \in 1..(MaxItems + MaxLoads) : PageSetOffset(n)
       \/ \E n \in 1..(MaxItems + MaxLoads) : PageRequest(n)
       \/ \E n \in 1..(MaxItems + MaxLoads) : PageFails(n)
       \/ Gather
       \/ GatherRaises

\* sync.py 229-240: the playlist of the source name is looked up in the
\* list returned; its tracks are loaded, or a playlist is created empty
LoadFind ==
    LET all_tidal_playlists == chunks.result
        Named(p) == tidal_playlists[p].name = playlist_data.name
        idx == FirstIndex([j \in 1..Len(all_tidal_playlists) |->
                              Named(all_tidal_playlists[j])])
    IN  /\ pc = "loading"
        /\ chunks.pc = "returned"
        /\ IF idx # 0
           THEN /\ sync' = [sync EXCEPT
                              !.playlist = all_tidal_playlists[idx],
                              !.old_tidal_tracks =
                                  tidal_playlists[all_tidal_playlists[idx]].tracks]
                /\ UNCHANGED tidal_playlists
           ELSE /\ tidal_playlists' =
                       Append(tidal_playlists,
                              [name |-> playlist_data.name, tracks |-> <<>>])
                /\ sync' = [sync EXCEPT !.playlist = Len(tidal_playlists) + 1,
                                        !.old_tidal_tracks = <<>>]
        /\ pc' = "seeding"
        /\ UNCHANGED <<chunks, run>>
        /\ UNCHANGED loadOther

\* sync.py 229: get_all_playlists raises and sync_playlist ends with it
LoadListingRaised ==
    /\ pc = "loading"
    /\ chunks.pc = "raised"
    /\ pc' = "failed"
    /\ UNCHANGED <<chunks, run, sync, tidal_playlists>>
    /\ UNCHANGED loadOther

\* sync.py 243-296: the rest of the run; it creates and deletes no playlist
\* (the tracks it adds to the playlist are left out here)
LoadRunEnds ==
    /\ pc = "seeding"
    /\ pc' = "done"
    /\ UNCHANGED <<chunks, run, sync, tidal_playlists>>
    /\ UNCHANGED loadOther

NextLoad ==
    \/ StartLoad
    \/ LoadListing
    \/ LoadFind
    \/ LoadListingRaised
    \/ LoadRunEnds

SpecLoad == InitLoad /\ [][NextLoad]_vars

(***************************************************************************)
(* SpecTransfer: one run of run_playlist_transfer_process_async (main.py   *)
(* 413-521) over one or two playlists; each playlist is handed to          *)
(* sync_playlist, whose steps are those of SpecSync.                       *)
(***************************************************************************)
MaxPlaylists == 2

\* sync.py 298-316 and main.py 464-468: the tracks of the playlist with an
\* id that has an active hold in the failure ledger
get_playlist_failure_summary(l, t, tracks) ==
    LET Held(k) == Source(k).id # "" /\ has_match_failure(l, Source(k).id, t)
    IN  SelectSeq(tracks, Held)

\* the playlists a transfer is asked for: empty, one findable track, or a
\* track that no search finds, a findable track and a track without id
TransferChoices ==
    {[name |-> n, tracks |-> t] :
        n \in PlaylistNames, t \in {<<>>, <<"B">>, <<"A", "B", "E">>}}

InitTransfer ==
    /\ now = 0
    /\ ledger = EmptyLedger
    /\ cache = EmptyCache
    /\ proc = Proc0
    /\ hist = Hist0
    /\ playlist_data = [name |-> "P", tracks |-> <<>>]
    /\ batch_size \in 1..MaxBatchSize
    /\ tidal_playlists \in TargetChoices
    /\ chunks = Chunks0
    /\ like = Like0
    /\ matching = Matching0
    /\ seeding = Seeding0
    /\ simplifying = Simplifying0
    /\ pc = "idle"
    /\ sync = Sync0
    /\ lookups = <<>>
    /\ run = Run0
    /\ transfer \in {[Transfer0 EXCEPT !.playlists = p] :
                        p \in UNION {[1..n -> TransferChoices] : n \in 1..MaxPlaylists}}

\* main.py 413-432: the background task starts
TransferStart ==
    /\ transfer.pc = "idle"
    /\ transfer.status = "none"
    /\ transfer' = [transfer EXCEPT !.pc = "loop", !.i = 1, !.status = "running"]
    /\ UNCHANGED <<now, ledger, cache, proc, hist, playlist_data, batch_size,
                   tidal_playlists, pc, sync, lookups, run, chunks, like, matching,
                   seeding, simplifying>>

\* main.py 434-458: the next playlist of the loop is handed to
\* sync_playlist, which returns at once for a playlist without tracks
TransferCallsSync ==
    LET next == transfer.playlists[transfer.i]
    IN  /\ transfer.pc = "loop"
        /\ transfer.i <= Len(transfer.playlists)
        /\ playlist_data' = next
        /\ run' = [Run0 EXCEPT !.no = run.no + 1,
                               !.skipped = (next.tracks = <<>>),
                               !.cold = hist.cold,
                               !.count0 = [id \in TrackIds |-> ledger[id].failure_count]]
        /\ hist' = [hist EXCEPT !.prevDone = (pc = "done" /\ ~run.skipped),
                                !.prevClean = (run.raised = 0),
                                !.cold = FALSE]
        /\ sync' = Sync0
        /\ lookups' = <<>>
        /\ pc' = IF next.tracks = <<>> THEN "done" ELSE "loading"
        /\ transfer' = [transfer EXCEPT !.pc = "syncing"]
        /\ UNCHANGED <<now, ledger, cache, proc, batch_size, tidal_playlists, chunks,
                       like, matching, seeding, simplifying>>

\* the steps of the sync_playlist call the transfer awaits
TransferSyncStep ==
    /\ transfer.pc = "syncing"
    /\ \/ LoadOk
       \/ LoadFails
       \/ Seed
       \/ SelectNew
       \/ \E j \in 1..MaxTracks : LookupStart(j)
       \/ \E j \in 1..MaxTracks : SearchReturns(j)
       \/ \E j \in 1..MaxTracks : SearchRaises(j)
       \/ \E j \in 1..MaxTracks : LookupRaises(j)
       \/ BatchCollect
       \/ Sleep
       \/ PostSearch
       \/ Diff
       \/ ClearChunk
       \/ AddChunk
       \/ ApplyFails
       \/ Finish

transferOther == <<now, ledger, cache, proc, hist, playlist_data, batch_size,
                   tidal_playlists, pc, sync, lookups, run, chunks, like, matching,
                   seeding, simplifying>>

\* main.py 458-472: sync_playlist returned; the tracks of the playlist with
\* an active hold are filed under its name, or the playlist counts as
\* successful
TransferSyncReturns ==
    LET playlist_name == playlist_data.name
        final_failed_tracks ==
            get_playlist_failure_summary(ledger, now, playlist_data.tracks)
    IN  /\ transfer.pc = "syncing"
        /\ pc = "done"
        /\ transfer' =
             IF final_failed_tracks # <<>>
             THEN [transfer EXCEPT
                     !.playlist_failures[playlist_name] =
                         [kind |-> "tracks", tracks |-> final_failed_tracks],
                     !.i = @ + 1, !.pc = "loop"]
             ELSE [transfer EXCEPT !.successful_playlists = @ + 1,
                                   !.i = @ + 1, !.pc = "loop"]
        /\ UNCHANGED transferOther

\* main.py 474-478: sync_playlist raised; the exception is caught, filed
\* under the name of the playlist and the loop goes on
TransferSyncRaises ==
    /\ transfer.pc = "syncing"
    /\ pc = "failed"
    /\ transfer' = [transfer EXCEPT
                      !.playlist_failures[playlist_data.name] =
                          [kind |-> "error", tracks |-> <<>>],
                      !.raised = @ \cup {transfer.i},
                      !.i = @ + 1, !.pc = "loop"]
    /\ UNCHANGED transferOther

\* main.py 480-509: the loop is over; the report and the progress end with
\* the status "completed"
TransferCompletes ==
    /\ transfer.pc = "loop"
    /\ transfer.i > Len(transfer.playlists)
    /\ transfer' = [transfer EXCEPT !.pc = "ended", !.status = "completed"]
    /\ UNCHANGED transferOther

\* main.py 511-521: a call outside the inner try raises (the session, the
\* failure ledger or the transfer report); the report and the progress end
\* with the status "failed"
TransferFails ==
    /\ transfer.pc \in {"idle", "loop"}
    /\ transfer' = [transfer EXCEPT !.pc = "ended", !.status = "failed"]
    /\ UNCHANGED transferOther

NextTransfer ==
    \/ TransferStart
    \/ TransferCallsSync
    \/ TransferSyncStep
    \/ TransferSyncReturns
    \/ TransferSyncRaises
    \/ TransferCompletes
    \/ TransferFails

SpecTransfer == InitTransfer /\ [][NextTransfer]_vars

(***************************************************************************)
(* SpecSimple: one call of simple (sync.py 21-22) on a string over a small *)
(* alphabet that holds the three delimiters and the blank.                 *)
(***************************************************************************)
MaxText == 5

\* the characters of the strings handed to simple
SimpleChars == {"a", " ", "-", "(", "["}

InitSimple ==
    /\ now = 0
    /\ ledger = EmptyLedger
    /\ cache = EmptyCache
    /\ proc = Proc0
    /\ hist = Hist0
    /\ chunks = Chunks0
    /\ playlist_data = [name |-> "P", tracks |-> <<>>]
    /\ batch_size = 1
    /\ tidal_playlists = <<>>
    /\ pc = "idle"
    /\ sync = Sync0
    /\ lookups = <<>>
    /\ run = Run0
    /\ like = Like0
    /\ matching = Matching0
    /\ seeding = Seeding0
    /\ transfer = Transfer0
    /\ simplifying \in {[Simplifying0 EXCEPT !.text = s] :
                           s \in UNION {[1..n -> SimpleChars] : n \in 0..MaxText}}

\* sync.py 21-22: simple(input_string) is called and returns
CallSimple ==
    /\ ~simplifying.called
    /\ simplifying' = [simplifying EXCEPT !.called = TRUE,
                                          !.result = simple(simplifying.text)]
    /\ UNCHANGED <<now, ledger, cache, proc, hist, playlist_data, batch_size,
                   tidal_playlists, pc, sync, lookups, run, chunks, like, matching,
                   seeding, transfer>>

NextSimple == CallSimple

SpecSimple == InitSimple /\ [][NextSimple]_vars

(***************************************************************************)
(* SpecApply: Diffing and Applying of one run of sync_playlist (sync.py    *)
(* 248-264), started after Resolving with any cache the lookups can have   *)
(* left and any previous membership of the target playlist.  The chunk     *)
(* size is scaled down with the playlists (1..MaxLimit against up to       *)
(* MaxTracks tracks, for 20 against playlists of more than 20 tracks), so  *)
(* that clearing and adding take several requests.                         *)
(***************************************************************************)
\* the caches Resolving can leave: an id maps to a target track that equals
\* its source track under match, or to none
ApplyCaches ==
    {c \in [TrackIds -> {0} \cup TidalIds] :
        \A k \in SourceKeys \cup ArtistlessKeys :
            (Source(k).id # "" /\ c[Source(k).id] # 0)
                => match(Tidal(c[Source(k).id]), Source(k))}

\* the previous memberships of the target playlist
ApplyOldTracks == UNION {[1..n -> TidalIds] : n \in 0..MaxTracks}

InitApply ==
    /\ now = 0
    /\ ledger = EmptyLedger
    /\ cache \in ApplyCaches
    /\ proc = Proc0
    /\ hist = Hist0
    /\ chunks = Chunks0
    /\ SideUnused
    /\ playlist_data \in {[name |-> "P", tracks |-> t] : t \in PlaylistChoices \ {<<>>}}
    /\ batch_size = 1
    /\ \E old \in ApplyOldTracks, size \in 1..MaxLimit :
          /\ tidal_playlists = <<[name |-> "P", tracks |-> old]>>
          /\ sync = [Sync0 EXCEPT !.playlist = 1, !.old_tidal_tracks = old,
                                  !.chunk_size = size]
    /\ pc = "diffing"
    /\ lookups = <<>>
    /\ run = [Run0 EXCEPT !.no = 1]

NextApply ==
    \/ Diff
    \/ ClearChunk
    \/ AddChunk
    \/ ApplyFails
    \/ Finish

SpecApply == InitApply /\ [][NextApply]_vars

(***************************************************************************)
(* SpecRetry: runs of sync_playlist in one server process (no restart: the *)
(* cache stays) that may be abandoned during Resolving and started again,  *)
(* on playlists that may hold a track more than once.                      *)
(***************************************************************************)
\* the source playlists: three different tracks, or a track twice
RetryChoices == {<<"A", "B", "C">>, <<"A", "A", "B">>}

InitRetry ==
    /\ now = 0
    /\ ledger = EmptyLedger
    /\ cache = EmptyCache
    /\ proc = Proc0
    /\ hist = Hist0
    /\ playlist_data \in {[name |-> "P", tracks |-> t] : t \in RetryChoices}
    /\ batch_size \in 1..MaxBatchSize
    /\ tidal_playlists \in TargetChoices
    /\ chunks = Chunks0
    /\ SideUnused
    /\ pc = "idle"
    /\ sync = Sync0
    /\ lookups = <<>>
    /\ run = Run0

\* sync.py 62-77: the task that runs sync_playlist is cancelled while it
\* awaits the lookups of a batch or the delay between two batches; the
\* CancelledError is caught nowhere and nothing written so far is undone
Abandon ==
    /\ pc \in {"batch", "sleeping"}
    /\ pc' = "failed"
    /\ hist' = [hist EXCEPT !.abandoned = TRUE, !.abRun = run.no,
                            !.abCache = cache, !.abLedger = ledger]
    /\ UNCHANGED <<now, ledger, cache, proc, chunks, sideVars, playlist_data, batch_size,
                   tidal_playlists, sync, lookups, run>>

NextRetry ==
    \/ \E d \in TickDays : Elapse(d)
    \/ StartSync
    \/ LoadOk
    \/ LoadFails
    \/ Seed
    \/ SelectNew
    \/ \E j \in 1..MaxTracks : LookupStart(j)
    \/ \E j \in 1..MaxTracks : SearchReturns(j)
    \/ \E j \in 1..MaxTracks : SearchRaises(j)
    \/ \E j \in 1..MaxTracks : LookupRaises(j)
    \/ BatchCollect
    \/ Sleep
    \/ PostSearch
    \/ Diff
    \/ ClearChunk
    \/ AddChunk
    \/ ApplyFails
    \/ Finish
    \/ Abandon

SpecRetry == InitRetry /\ [][NextRetry]_vars

(***************************************************************************)
(* Properties of the failure ledger (checked under SpecLedger)             *)
(***************************************************************************)
\* the hold interval, in days, the n-th failure of an id is to set
BackoffDays(n) == IF n = 1 THEN 7 ELSE IF n = 2 THEN 14 ELSE 28

\* C3: has_match_failure(id) is true exactly when a record of id exists and
\* its next_retry is strictly later than the current time; it is false for an
\* id without record and for an id whose backoff window has expired.
C3_HasFailureIff ==
    \A id \in LedgerIds :
        /\ has_match_failure(ledger, id, now)
             = (ledger[id] # NoRecord /\ ledger[id].next_retry > now)
        /\ ledger[id] = NoRecord => ~has_match_failure(ledger, id, now)
        /\ (ledger[id] # NoRecord /\ ledger[id].next_retry <= now)
             => ~has_match_failure(ledger, id, now)

\* one id is held, another id has a record whose window expired just now
C3_Witness ==
    \E x, y \in LedgerIds :
        /\ ledger[x] # NoRecord /\ ledger[x].next_retry = now
        /\ ~has_match_failure(ledger, x, now)
        /\ ledger[y] # NoRecord /\ has_match_failure(ledger, y, now)

\* C4: the n-th recorded failure of an id sets next_retry 7, 14, 28, 28, 28
\* days after the time of that failure (n = 1..5): the interval never
\* decreases as the count grows and never exceeds 28 days.
C4_HoldIntervals ==
    [][\A id \in LedgerIds :
          CacheMatchFailure(id) =>
            /\ ledger'[id].next_retry - now = BackoffDays(ledger'[id].failure_count)
            /\ ledger'[id].next_retry - now <= 28
            /\ ledger[id] # NoRecord =>
                 ledger'[id].next_retry - now >= BackoffDays(ledger[id].failure_count)
      ]_vars

\* the fifth failure of an id has just been recorded
C4_Witness ==
    \E id \in LedgerIds :
        ledger[id].failure_count = 5 /\ ledger[id].next_retry = now + 28

\* C5: cache_match_failure on an id with a record (expired or active) adds
\* exactly 1 to failure_count and keeps insert_time; on an id without record
\* it creates a record with failure_count 1 and insert_time = now.
C5_Upsert ==
    [][\A id \in LedgerIds :
          CacheMatchFailure(id) =>
            IF ledger[id] # NoRecord
            THEN /\ ledger'[id].failure_count = ledger[id].failure_count + 1
                 /\ ledger'[id].insert_time = ledger[id].insert_time
            ELSE /\ ledger'[id].failure_count = 1
                 /\ ledger'[id].insert_time = now
      ]_vars

\* a record whose window had expired was incremented, and a record that was
\* still held was incremented
C5_Witness ==
    \E x, y \in LedgerIds :
        /\ ledger[x].failure_count = 2 /\ ledger[x].insert_time + 7 <= now
        /\ ledger[x].next_retry = now + 14
        /\ ledger[y].failure_count = 3 /\ ledger[y].insert_time = now

\* C6 as claimed: two records with equal insert_time and equal failure_count
\* have equal next_retry.
C6_Original ==
    \A x, y \in LedgerIds :
        (/\ ledger[x] # NoRecord /\ ledger[y] # NoRecord
         /\ ledger[x].insert_time = ledger[y].insert_time
         /\ ledger[x].failure_count = ledger[y].failure_count)
        => ledger[x].next_retry = ledger[y].next_retry

\* C6 amended: next_retry is computed from the clock at the latest failure,
\* so it lies between insert_time + backoff(failure_count) and
\* now + backoff(failure_count).
C6_Amended ==
    \A id \in LedgerIds :
        ledger[id] # NoRecord =>
            /\ ledger[id].insert_time + BackoffDays(ledger[id].failure_count)
                 <= ledger[id].next_retry
            /\ ledger[id].next_retry <= now + BackoffDays(ledger[id].failure_count)

\* two records with equal insert_time and failure_count, different next_retry
C6_Witness ==
    \E x, y \in LedgerIds :
        /\ ledger[x] # NoRecord /\ ledger[y] # NoRecord
        /\ ledger[x].insert_time = ledger[y].insert_time
        /\ ledger[x].failure_count = ledger[y].failure_count
        /\ ledger[x].next_retry # ledger[y].next_retry

\* C7: right after remove_match_failure(id), has_match_failure(id) is false,
\* also when the removed record was still held; removing an id without
\* record leaves the ledger unchanged (and no other record is touched).
C7_RemoveClears ==
    [][\A id \in LedgerIds :
          (RemoveMatchFailure(id) \/ ClearTrackFailure(id)) =>
            /\ ~has_match_failure(ledger', id, now')
            /\ ledger[id] = NoRecord => ledger' = ledger
            /\ \A o \in TrackIds \ {id} : ledger'[o] = ledger[o]
      ]_vars

\* a record that was still held has been removed
C7_Witness ==
    \E id \in LedgerIds :
        /\ hist.removed[id] > 0 /\ hist.removedActive[id]
        /\ ledger[id] = NoRecord
        /\ ~has_match_failure(ledger, id, now)

\* C8: the first failure recorded after a removal creates a fresh record:
\* failure_count 1 and a hold of 7 days, whatever the count was before.
C8_RemoveResets ==
    \A id \in LedgerIds :
        (hist.removed[id] > 0 /\ ledger[id] # NoRecord) =>
            /\ ledger[id].failure_count = 1
            /\ ledger[id].next_retry = ledger[id].insert_time + 7
            /\ ledger[id].insert_time <= now

\* a record with three or more failures was removed and the id failed again
C8_Witness ==
    \E id \in LedgerIds :
        /\ hist.removed[id] >= 3
        /\ ledger[id].failure_count = 1
        /\ ledger[id].next_retry = now + 7

(***************************************************************************)
(* Concurrent use of the failure ledger (checked under SpecConc)           *)
(***************************************************************************)
\* C9: when two processes call cache_match_failure for the same id at
\* overlapping times, no call raises and no increment is lost: once both
\* are through, failure_count is the number of calls made for the id.
C9_NoLostIncrement ==
    (\A p \in Procs : proc[p].pc = "idle") =>
        /\ \A p \in Procs : proc[p].raised = 0
        /\ \A id \in LedgerIds :
             ledger[id].failure_count = proc[1].calls[id] + proc[2].calls[id]

(***************************************************************************)
(* Properties of sync_playlist (checked under SpecSync)                    *)
(***************************************************************************)
\* the run in progress has its search phase behind it
SearchPhaseOver == pc \in {"found", "diffing", "clearing", "adding", "summary"}

\* C1: when sync_playlist has completed for a playlist and is run again
\* on the same playlist with the catalog, the search results and the clock
\* unchanged, the second run issues no clear and no add on the target
\* playlist.
C1_Original ==
    ( /\ pc = "done"
      /\ ~run.skipped
      /\ hist.prevDone
      /\ hist.prevClean
      /\ ~run.cold
      /\ run.raised = 0 )
    => (run.clears = 0 /\ run.adds = 0)

C10_ResultsInInputOrder ==
    /\ pc \in {"sleeping", "found"} =>
          /\ Len(sync.search_results)
               = Min(sync.i + batch_size, Len(sync.tracks_to_search))
          /\ \A j \in 1..Len(sync.search_results) :
                sync.search_results[j]
                  = (IF lookups[j].ret = Exc THEN 0 ELSE lookups[j].ret)
    /\ pc = "found" => Len(sync.search_results) = Len(sync.tracks_to_search)

\* a second batch has been collected, a batch's lookups completed out of
\* list order, and the results hold a match and a miss
C10_Witness ==
    /\ pc = "found"
    /\ sync.i > 0
    /\ run.outOfOrder
    /\ \E j, k \in 1..Len(sync.search_results) :
          sync.search_results[j] = 0 /\ sync.search_results[k] # 0

(***************************************************************************)
(* Properties of the search phase (checked under SpecSync)                 *)
(***************************************************************************)
\* C11: when the lookup of one track of a batch raises, that track's
\* result is none, the results of the other tracks are what their lookups
\* returned, every later batch is still executed and the exception does
\* not leave tidal_search_batch.
C11_ExceptionContained ==
    /\ [](\A j \in 1..Len(sync.search_results) :
             IF lookups[j].ret = Exc
             THEN sync.search_results[j] = 0
             ELSE sync.search_results[j] = lookups[j].ret)
    /\ [](pc = "found" =>
             /\ Len(sync.search_results) = Len(sync.tracks_to_search)
             /\ \A j \in 1..Len(lookups) : lookups[j].st = "returned")
    /\ [][pc = "batch" => pc' \in {"batch", "sleeping", "found"}]_vars

\* a lookup of the first batch raised, another lookup of that batch and a
\* lookup of the next batch returned a match
C11_Witness ==
    /\ pc = "found"
    /\ batch_size = 2
    /\ Len(sync.search_results) = 3
    /\ \E j, k \in 1..2 :
          /\ lookups[j].ret = Exc
          /\ sync.search_results[j] = 0
          /\ sync.search_results[k] > 0
    /\ sync.search_results[3] > 0

\* a lookup ended unmatched after all its artists were tried
EndedUnmatched(j) ==
    /\ lookups[j].st = "returned"
    /\ lookups[j].ret = 0
    /\ lookups[j].artist = Len(Source(sync.tracks_to_search[j]).artists)

\* a lookup ended matched
EndedMatched(j) == lookups[j].st = "returned" /\ lookups[j].ret > 0

\* C12: during a sync each looked-up track that ends unmatched after all
\* its artists were tried causes exactly one failure-ledger write, and each
\* looked-up track that ends matched causes exactly one cache insert.
C12_Original ==
    pc \in {"diffing", "clearing", "adding", "summary"} =>
        \A j \in 1..Len(lookups) :
            /\ EndedUnmatched(j) => lookups[j].writes = 1
            /\ EndedMatched(j) => lookups[j].inserts = 1

\* C13: no lookup of batch N+1 starts before every lookup of batch N has
\* finished and the delay after batch N has elapsed; a delay follows every
\* batch except the last.
C13_BatchesSequential ==
    /\ [](\A j \in 1..Len(lookups) :
             lookups[j].st # "new" =>
                 /\ j <= sync.i + batch_size
                 /\ \A m \in 1..Min(sync.i, Len(lookups)) : lookups[m].st = "returned")
    /\ [][sync'.i > sync.i =>
             /\ pc = "sleeping" /\ pc' = "batch"
             /\ sync'.i = sync.i + batch_size]_vars
    /\ [][(pc = "batch" /\ pc' # "batch") =>
             /\ \A m \in 1..Min(sync.i + batch_size, Len(lookups)) :
                   lookups[m].st = "returned"
             /\ pc' = IF Len(sync'.search_results) < Len(sync.tracks_to_search)
                      THEN "sleeping" ELSE "found"]_vars

\* the delay after the second batch is running while the third batch has
\* not started
C13_Witness ==
    /\ pc = "sleeping"
    /\ sync.i > 0
    /\ \E j \in 1..Len(lookups) : lookups[j].st = "new"

InFlight == {j \in 1..Len(lookups) : lookups[j].st = "searching"}

\* C14: at every moment during tidal_search_batch the number of lookups in
\* flight is at most the configured batch size.
C14_InFlightBounded == Cardinality(InFlight) <= batch_size

\* a full batch is in flight while a further track waits for the next batch
C14_Witness ==
    /\ Cardinality(InFlight) = batch_size
    /\ batch_size = 2
    /\ Len(sync.tracks_to_search) = 3

(***************************************************************************)
(* Properties of the diff phase (checked under SpecSync)                   *)
(***************************************************************************)
\* the target id cached for source track number j of the playlist, 0 = none
CachedId(j) ==
    IF Source(spotify_tracks[j]).id = "" THEN 0
    ELSE cache[Source(spotify_tracks[j]).id]

\* the first source track the target id t is cached for
FirstPos(t) ==
    CHOOSE j \in 1..Len(spotify_tracks) :
        CachedId(j) = t /\ \A m \in 1..(j - 1) : CachedId(m) # t

DesiredComputed == pc \in {"clearing", "adding", "summary"}

\* C18: the desired list holds no target id twice; it lists, in source
\* order, the cached target id of every source track with an id and a cache
\* entry, leaving out the ids already emitted for an earlier source track.
C18_DesiredList ==
    DesiredComputed =>
        LET out == sync.new_tidal_track_ids
        IN  /\ \A a, b \in 1..Len(out) : a # b => out[a] # out[b]
            /\ Range(out) = {CachedId(j) : j \in 1..Len(spotify_tracks)} \ {0}
            /\ \A a, b \in 1..Len(out) : a < b => FirstPos(out[a]) < FirstPos(out[b])

\* two source tracks share a cached target id and the desired list holds
\* it once, after the id of a track between them
C18_Witness ==
    /\ DesiredComputed
    /\ Len(sync.new_tidal_track_ids) = 2
    /\ \E a, b \in 1..Len(spotify_tracks) :
          a < b /\ CachedId(a) # 0 /\ CachedId(a) = CachedId(b)

\* C19: sync_playlist issues a clear or an add on the target playlist only
\* if the desired id list differs from the existing one; when the two are
\* equal it issues neither.
C19_WritesOnlyOnDifference ==
    /\ (run.clears > 0 \/ run.adds > 0 \/ pc \in {"clearing", "adding"})
          => sync.new_tidal_track_ids # sync.old_tidal_tracks
    /\ (pc \in {"summary", "done"} /\ ~run.skipped
          /\ sync.new_tidal_track_ids = sync.old_tidal_tracks)
          => (run.clears = 0 /\ run.adds = 0)

\* a run found the target playlist already holding the desired tracks and
\* completed without a request
C19_Witness ==
    /\ pc = "done"
    /\ ~run.skipped
    /\ sync.old_tidal_tracks # <<>>
    /\ sync.new_tidal_track_ids = sync.old_tidal_tracks
    /\ run.clears = 0
    /\ run.adds = 0

\* C20: a remote search is issued only for source tracks that, when
\* Resolving starts, have an id, no cache entry and no failure record whose
\* next_retry is in the future.
C20_SearchedOnlyNew ==
    ~NotRunning =>
        /\ run.searched \subseteq PlaylistIds
        /\ run.searched \cap run.cached0 = {}
        /\ run.searched \cap run.held0 = {}

\* a run searches one track while another is cached and a third is held
C20_Witness ==
    /\ ~NotRunning
    /\ run.searched # {}
    /\ run.cached0 # {}
    /\ run.held0 # {}

(***************************************************************************)
(* Properties of _get_all_chunks (checked under SpecChunks)                *)
(***************************************************************************)
\* the offsets of the listing's pages (offset 0 is requested even when the
\* listing is empty)
PageOffsets ==
    {0} \cup {chunks.limit * n : n \in 1..NumExtra(chunks.limit, chunks.total)}

\* C16: when a page request of the load of the existing playlists or of the
\* playlist's tracks fails, no partial list is used: sync_playlist ends with
\* the exception before any cache seeding and before any write to a target
\* playlist.
C16_LoadFailureAborts ==
    /\ [][LoadFails =>
             /\ pc' = "failed"
             /\ sync'.old_tidal_tracks = <<>>
             /\ UNCHANGED <<cache, ledger, tidal_playlists>>]_vars
    /\ []((pc = "failed" /\ sync.playlist = 0) =>
             /\ sync.old_tidal_tracks = <<>>
             /\ lookups = <<>>
             /\ run.clears = 0
             /\ run.adds = 0)
    /\ [][pc = "failed" =>
             /\ pc' \in {"failed", "loading", "done"}
             /\ tidal_playlists' = tidal_playlists
             /\ cache' \in {cache, EmptyCache}]_vars

\* the load failed in a run on a playlist that exists with tracks on the
\* target account while the cache holds matches of an earlier run
C16_Witness ==
    /\ pc = "failed"
    /\ sync.playlist = 0
    /\ cache # EmptyCache
    /\ \E idx \in 1..Len(tidal_playlists) :
          /\ tidal_playlists[idx].name = playlist_data.name
          /\ tidal_playlists[idx].tracks # <<>>

\* C15: _get_all_chunks requests each offset 0, limit, 2*limit, ... below
\* total exactly once and returns every item of the listing exactly once,
\* under every interleaving of the page requests.
C15_Original ==
    chunks.pc = "returned" =>
        /\ chunks.result = [k \in 1..chunks.total |-> k]
        /\ \A o \in PageOffsets :
              Cardinality({a \in 1..Len(chunks.requested) : chunks.requested[a] = o}) = 1
        /\ Len(chunks.requested) = Cardinality(PageOffsets)

\* C17 as claimed: the list returned is the first page followed by the
\* other pages in the order in which their fetches completed.
C17_Original ==
    (chunks.pc = "returned" /\ chunks.pages # <<>>) =>
        chunks.result
          = Page(0, chunks.limit, chunks.total)
              \o Flatten(atqdm_gather_AsCompleted(chunks.pages, chunks.completed))

\* C17: the list returned is the first page followed by the results of the
\* other page requests in the order in which the requests were handed to
\* gather (ascending page number), whatever the order of completion.
C17_Amended ==
    (chunks.pc = "returned" /\ chunks.pages # <<>>) =>
        chunks.result
          = Page(0, chunks.limit, chunks.total)
              \o Flatten([n \in 1..Len(chunks.pages) |-> chunks.pages[n].got])

\* a fetch returned whose page threads completed out of page order with
\* different pages
C17_Witness ==
    /\ chunks.pc = "returned"
    /\ \E a, b \in 1..Len(chunks.completed) :
          /\ a < b
          /\ chunks.completed[a] > chunks.completed[b]
          /\ chunks.pages[chunks.completed[a]].got # chunks.pages[chunks.completed[b]].got

(***************************************************************************)
(* Properties of the like-a-song flow (checked under SpecLike)             *)
(***************************************************************************)
\* the step issues a remote search (for the track like'.track)
IssuesSearch ==
    /\ like'.pc = "searching"
    /\ like'.queries # like.queries

\* C21: once a source id has an entry in the correspondence cache, no
\* remote search is issued for that id for the rest of the process: every
\* step of the like-a-song flow that issues a search for a track with an id
\* finds no cache entry for that id.
C21_Original ==
    [][(IssuesSearch /\ Source(like'.track).id # "")
          => cache_get(cache, Source(like'.track).id) = 0]_vars

(***************************************************************************)
(* Properties of populate_track_match_cache (checked under SpecSeed)       *)
(***************************************************************************)
HitNumbers == 1..Len(seeding.hits)

\* C22 as stated: a hit removes both of its tracks from the working lists,
\* and over both loops no target track and no source track is in two hits.
C22_Original ==
    /\ \A a \in HitNumbers :
          /\ seeding.hits[a].s \notin Range(seeding.spotify_tracks)
          /\ seeding.hits[a].t \notin Range(seeding.tidal_tracks)
    /\ \A a, b \in HitNumbers :
          a # b => /\ seeding.hits[a].s # seeding.hits[b].s
                   /\ seeding.hits[a].t # seeding.hits[b].t

\* C22: a hit of the first loop removes the matched source track from the
\* working list of source tracks and a hit of the second loop removes the
\* matched target track from the working list of target tracks; no source
\* track is in two hits and no target track is in two hits of the same loop.
C22_Amended ==
    /\ \A a \in HitNumbers :
          IF seeding.hits[a].loop = 1
          THEN seeding.hits[a].s \notin Range(seeding.spotify_tracks)
          ELSE seeding.hits[a].t \notin Range(seeding.tidal_tracks)
    /\ \A a, b \in HitNumbers :
          a # b => /\ seeding.hits[a].s # seeding.hits[b].s
                   /\ seeding.hits[a].loop = seeding.hits[b].loop
                         => seeding.hits[a].t # seeding.hits[b].t

\* both loops had a hit, and the two hits are for the same target track
C22_Witness ==
    /\ seeding.pc = "done"
    /\ \E a, b \in HitNumbers :
          /\ seeding.hits[a].loop = 1
          /\ seeding.hits[b].loop = 2
          /\ seeding.hits[a].t = seeding.hits[b].t

\* s and t are positions of a source track and an available target track
\* that match
Related(s, t) ==
    /\ SeedTarget(t).available
    /\ match(SeedTarget(t), SeedSource(s))

\* the match relation between the two argument lists is one-to-one
OneToOne ==
    LET S == 1..Len(seeding.spotify_tracks_)
        T == 1..Len(seeding.tidal_tracks_)
    IN  /\ \A s \in S : Cardinality({t \in T : Related(s, t)}) <= 1
        /\ \A t \in T : Cardinality({s \in S : Related(s, t)}) <= 1

\* C23: if the match relation between the source tracks and the available
\* target tracks is one-to-one, then after seeding the cache maps the id of
\* every source track with a partner to the id of that partner, in every
\* order of the two lists.
C23_SeedsEveryPair ==
    (seeding.pc = "done" /\ OneToOne) =>
        \A s \in 1..Len(seeding.spotify_tracks_), t \in 1..Len(seeding.tidal_tracks_) :
            Related(s, t) => cache_get(cache, SeedSource(s).id) = SeedTarget(t).id

\* two pairs that cross: the lists are not in the same order
C23_Witness ==
    /\ seeding.pc = "done"
    /\ OneToOne
    /\ \E s1, s2 \in 1..Len(seeding.spotify_tracks_),
          t1, t2 \in 1..Len(seeding.tidal_tracks_) :
          /\ s1 < s2 /\ t2 < t1
          /\ Related(s1, t1) /\ Related(s2, t2)
          /\ cache_get(cache, SeedSource(s1).id) = SeedTarget(t1).id
          /\ cache_get(cache, SeedSource(s2).id) = SeedTarget(t2).id

\* the steps of SpecSeed compute what populate_track_match_cache computes
SeedAgrees ==
    seeding.pc = "done" =>
        cache = populate_track_match_cache(EmptyCache, seeding.spotify_tracks_,
                                           seeding.tidal_tracks_)

(***************************************************************************)
(* Properties of match (checked under SpecMatch)                           *)
(***************************************************************************)
\* the two records of the call carry the same non-empty ISRC
SameIsrc ==
    /\ matching.tidal_track.isrc # ""
    /\ matching.spotify_track.isrc # ""
    /\ matching.tidal_track.isrc = matching.spotify_track.isrc

\* the difference of the two durations in milliseconds
DurationGap ==
    Abs(matching.tidal_track.duration * 1000 - matching.spotify_track.duration)

\* C24: match returns false for every source record whose id is absent or
\* empty, whatever the candidate and the other fields.
C24_NoIdNoMatch ==
    (matching.fn = "match" /\ matching.spotify_track.id = "")
        => matching.result = FALSE

\* a record without id that agrees with the candidate in every field
C24_Witness ==
    /\ matching.fn = "match"
    /\ matching.spotify_track.id = ""
    /\ SameIsrc
    /\ matching.spotify_track.name = matching.tidal_track.name
    /\ matching.spotify_track.artists = matching.tidal_track.artists
    /\ DurationGap = 0
    /\ matching.result = FALSE

\* C25 as stated: match returns true for every candidate and every source
\* record whose ISRC codes are both non-empty and equal.
C25_Original ==
    (matching.fn = "match" /\ SameIsrc) => matching.result = TRUE

\* C25: match returns true for every candidate and every source record
\* with a non-empty id whose ISRC codes are both non-empty and equal,
\* whatever the names, durations and artists.
C25_Amended ==
    (matching.fn = "match" /\ SameIsrc /\ matching.spotify_track.id # "")
        => matching.result = TRUE

\* equal ISRC codes, every other field different
C25_Witness ==
    /\ matching.fn = "match"
    /\ SameIsrc
    /\ matching.spotify_track.id # ""
    /\ matching.spotify_track.name # matching.tidal_track.name
    /\ matching.spotify_track.artists # matching.tidal_track.artists
    /\ DurationGap >= 3000
    /\ matching.result = TRUE

\* C26: without an ISRC match, a duration difference of 3000 ms or more
\* makes match return false, also for identical names and artists; a
\* difference below 3000 ms passes duration_match and one of 3000 ms or more
\* fails it.
C26_DurationTolerance ==
    /\ (matching.fn = "match" /\ ~SameIsrc /\ DurationGap >= 3000)
          => matching.result = FALSE
    /\ matching.fn = "duration_match"
          => (matching.result = TRUE <=> DurationGap < 3000)

\* exactly 3000 ms apart, the same name and artist, an id, no ISRC
C26_Witness ==
    /\ matching.fn = "match"
    /\ ~SameIsrc
    /\ matching.spotify_track.id # ""
    /\ DurationGap = 3000
    /\ matching.spotify_track.name = matching.tidal_track.name
    /\ matching.spotify_track.artists = matching.tidal_track.artists
    /\ matching.result = FALSE

\* query number q of the last lookup returned a candidate that matches
QueryHeldMatch(q) ==
    \E m \in 1..Len(like.queries[q].results) :
        match(Tidal(like.queries[q].results[m]), Source(like.track))

\* C27: tidal_search_single queries the artists in list order, one query
\* per artist; a query is followed by another only if it held no matching
\* candidate; a track returned is the first matching candidate, in result
\* order, of the last query issued; and None is returned after a query only
\* when every artist was queried and no query held a matching candidate.
C27_QueryOrder ==
    LET spotify_track == Source(like.track)
        n == Len(like.queries)
        results == like.queries[n].results
    IN  /\ \A q \in 1..n : like.queries[q].artist = q
        /\ n <= Len(spotify_track.artists)
        /\ \A q \in 1..(n - 1) : ~QueryHeldMatch(q)
        /\ (like.pc # "searching" /\ n > 0) =>
              IF like.ret > 0
              THEN \E m \in 1..Len(results) :
                      /\ results[m] = like.ret
                      /\ match(Tidal(results[m]), spotify_track)
                      /\ \A k \in 1..(m - 1) : ~match(Tidal(results[k]), spotify_track)
              ELSE like.ret = 0 =>
                      /\ n = Len(spotify_track.artists)
                      /\ ~QueryHeldMatch(n)

\* track D: the first artist's query holds no match, the second artist's
\* query holds the match as its second candidate
C27_Witness ==
    /\ like.pc = "adding"
    /\ like.track = "D"
    /\ Len(like.queries) = 2
    /\ like.queries[2].results = <<2, 3>>
    /\ like.ret = 3

(***************************************************************************)
(* Properties of the Loading phase (checked under SpecLoad)                *)
(***************************************************************************)
\* the positions of the account's playlists named like the source playlist
NamedLikeSource ==
    {j \in 1..Len(tidal_playlists) : tidal_playlists[j].name = playlist_data.name}

\* C28: sync_playlist creates a target playlist only if none has the source
\* name, so that runs that follow one another never leave two target
\* playlists of that name.
C28_Original == Cardinality(NamedLikeSource) <= 1

(***************************************************************************)
(* Properties of failing remote calls and of the failure summary (checked  *)
(* under SpecSync)                                                         *)
(***************************************************************************)
\* C29: an error raised by a remote call during a sync leaves sync_playlist
\* at once and halts the run, also when a remote search of the Resolving
\* phase raises it: the step in which a search raises ends the run as failed.
C29_Original ==
    [][(\E j \in 1..MaxTracks : SearchRaises(j)) => pc' = "failed"]_vars

\* source track k is represented in the target playlist of the run: its
\* id has a cache entry and the target playlist holds that target track
Represented(k) ==
    /\ Source(k).id # ""
    /\ cache_get(cache, Source(k).id) # 0
    /\ cache_get(cache, Source(k).id) \in Range(tidal_playlists[sync.playlist].tracks)

\* C30: when the transfer of a playlist ends, every source track that is not
\* represented in its target playlist is named in the failure summary.
C30_Original ==
    pc = "summary" =>
        \A k \in Range(spotify_tracks) :
            \/ Represented(k)
            \/ k \in Range(get_playlist_failure_summary(ledger, now, spotify_tracks))

(***************************************************************************)
(* Properties of the transfer (checked under SpecTransfer)                 *)
(***************************************************************************)
\* C31: when sync_playlist raised for a playlist of the transfer, the
\* transfer ends with the status "failed" and its report holds the error
\* under the name of that playlist.
C31_Original ==
    (transfer.pc = "ended" /\ transfer.raised # {}) =>
        /\ transfer.status = "failed"
        /\ \A i \in transfer.raised :
              transfer.playlist_failures[transfer.playlists[i].name].kind = "error"


(***************************************************************************)
(* Properties of the page threads (checked under SpecChunks)               *)
(***************************************************************************)
\* the page threads of _get_all_chunks that have not yet sent their request
UnfinishedPages ==
    {n \in 1..Len(chunks.pages) : chunks.pages[n].st \in {"new", "set"}}

\* C32: concurrently executing page requests write no shared object: while
\* two or more page threads of a listing are still to send their request,
\* no step changes the offset of the params dict they all read.
C32_Original ==
    [][(chunks.pc = "gather" /\ Cardinality(UnfinishedPages) >= 2)
          => chunks'.offset = chunks.offset]_vars


(***************************************************************************)
(* Properties of simple (checked under SpecSimple)                         *)
(***************************************************************************)
\* position i of s starts one of the delimiters ' - ', '(' or '['
DelimiterAt(s, i) ==
    \/ s[i] \in {"(", "["}
    \/ i + 2 <= Len(s) /\ SubSeq(s, i, i + 2) = <<" ", "-", " ">>

\* s cut at the first occurrence of ' - ', '(' or '[' and then trimmed
CutAtDelimiter(s) ==
    IF \E i \in 1..Len(s) : DelimiterAt(s, i)
    THEN Strip(SubSeq(s, 1, (CHOOSE i \in 1..Len(s) :
                   DelimiterAt(s, i) /\ \A j \in 1..(i - 1) : ~DelimiterAt(s, j)) - 1))
    ELSE Strip(s)

\* C34: simple(text) is text cut at the first occurrence of ' - ', '(' or
\* '[' and then trimmed; a text with none of the three is only trimmed.
C34_Original ==
    simplifying.called => simplifying.result = CutAtDelimiter(simplifying.text)


(***************************************************************************)
(* Properties of Diffing and Applying (checked under SpecApply)            *)
(***************************************************************************)
\* C35: when sync_playlist completes for a playlist with tracks, the target
\* playlist holds exactly the desired list of Diffing, in its order,
\* whatever the previous membership and the number of requests.
C35_TargetEqualsDesired ==
    pc = "done" =>
        /\ sync.new_tidal_track_ids
             = get_tracks_for_new_tidal_playlist(cache, spotify_tracks)
        /\ tidal_playlists[sync.playlist].tracks = sync.new_tidal_track_ids

C35_Witness ==
    /\ pc = "done"
    /\ run.clears >= 2
    /\ run.adds >= 2
    /\ sync.old_tidal_tracks # sync.new_tidal_track_ids
    /\ tidal_playlists[sync.playlist].tracks = sync.new_tidal_track_ids

\* C36 as claimed: when a request of the add step raises after the clear
\* step emptied the target playlist, the run ends with the exception and
\* the target playlist is empty.
C36_Original ==
    [][(ApplyFails /\ pc = "adding" /\ run.clears > 0)
          => (pc' = "failed" /\ tidal_playlists'[sync.playlist].tracks = <<>>)]_vars

\* C36 amended: the run ends with the exception and the target playlist
\* holds the chunks added before the failing request (none if it was the
\* first), whatever the previous membership was.
C36_Amended ==
    [][(ApplyFails /\ pc = "adding" /\ run.clears > 0)
          => /\ pc' = "failed"
             /\ tidal_playlists'[sync.playlist].tracks
                  = SubSeq(sync.new_tidal_track_ids, 1, sync.offset)
             /\ sync.offset = Min(run.adds * sync.chunk_size,
                                  Len(sync.new_tidal_track_ids))]_vars

C36_Witness ==
    /\ pc = "failed"
    /\ run.clears > 0
    /\ run.adds > 0
    /\ sync.offset < Len(sync.new_tidal_track_ids)
    /\ tidal_playlists[sync.playlist].tracks # sync.old_tidal_tracks
    /\ tidal_playlists[sync.playlist].tracks # <<>>


(***************************************************************************)
(* Order of the phases of sync_playlist (checked under SpecSync)           *)
(***************************************************************************)
\* the run in progress or just ended has sent a clear or add request, or is
\* about to
ApplyBegun == pc \in {"clearing", "adding"} \/ run.clears + run.adds > 0

\* C37: the phases of a run occur in the order Loading, Seeding, Resolving,
\* Diffing, Applying: seeding follows the load and precedes every lookup,
\* no clear or add request is sent before every lookup of the run has
\* returned, and from the first clear or add request to the end of the run
\* no search is issued and neither the cache nor the ledger is written.
C37_PhaseOrder ==
    /\ [](ApplyBegun =>
            /\ sync.playlist # 0
            /\ Len(lookups) = Len(sync.tracks_to_search)
            /\ Len(sync.search_results) = Len(sync.tracks_to_search)
            /\ \A j \in 1..Len(lookups) : lookups[j].st = "returned")
    /\ [][(ApplyBegun /\ ~NotRunning) =>
            /\ cache' = cache
            /\ ledger' = ledger
            /\ lookups' = lookups
            /\ run'.searched = run.searched]_vars
    /\ [][Seed => (sync.playlist # 0 /\ lookups = <<>> /\ run.searched = {})]_vars

C37_Witness ==
    /\ pc = "summary"
    /\ run.clears > 0
    /\ run.adds > 0
    /\ Len(lookups) >= 2
    /\ run.searched # {}
    /\ \E id \in TrackIds : cache[id] # 0


\* C40: sync_playlist called with a source playlist without tracks returns
\* at once: the call loads, creates, clears and changes no target playlist,
\* issues no search and writes neither cache nor ledger, also when a
\* non-empty target playlist of the same name exists.
C40_EmptyPlaylistSkipped ==
    /\ [][(StartSync /\ spotify_tracks = <<>>) =>
            /\ pc' = "done"
            /\ tidal_playlists' = tidal_playlists
            /\ cache' = cache
            /\ ledger' = ledger]_vars
    /\ [](run.skipped =>
            /\ pc = "done"
            /\ sync = Sync0
            /\ lookups = <<>>
            /\ run.searched = {}
            /\ run.clears = 0
            /\ run.adds = 0)

C40_Witness ==
    /\ run.skipped
    /\ pc = "done"
    /\ spotify_tracks = <<>>
    /\ \E n \in 1..Len(tidal_playlists) :
          tidal_playlists[n].name = playlist_data.name /\ tidal_playlists[n].tracks # <<>>


(***************************************************************************)
(* Lookups that end without a usable search (checked under SpecLike)       *)
(***************************************************************************)
\* the step ends a lookup none of whose searches returned: the search for
\* the last artist raises after every earlier one raised, or the track
\* lists no artist and is not held
EndsWithoutSearchResult ==
    \/ /\ LikeSearchRaises
       /\ like.artist = Len(Source(like.track).artists)
       /\ \A q \in 1..(Len(like.queries) - 1) : like.queries[q].raised
    \/ /\ LikeLookupStart
       /\ Source(like.tracks[like.i]).artists = <<>>
       /\ ~has_match_failure(ledger, Source(like.tracks[like.i]).id, now)

\* the track whose lookup the step ends
EndingTrack ==
    IF like.pc = "lookup" THEN Source(like.tracks[like.i]) ELSE Source(like.track)

\* C39: a track with an id whose every artist query raised, or which lists
\* no artist, gets a failure record as a track without match does: the
\* failure count grows by one, the first record holds the track for 7 days,
\* and the track is held from retry after the lookup.
C39_ErrorRecordedAsNoMatch ==
    [][(EndsWithoutSearchResult /\ EndingTrack.id # "") =>
          LET id == EndingTrack.id
          IN  /\ ledger'[id].failure_count = ledger[id].failure_count + 1
              /\ ledger[id] = NoRecord =>
                    /\ ledger'[id].insert_time = now
                    /\ ledger'[id].next_retry = now + 7
              /\ ledger'[id].last_error = "None"
              /\ has_match_failure(ledger', id, now)
              /\ \A o \in TrackIds \ {id} : ledger'[o] = ledger[o]]_vars

\* a request with the track without artists and a track whose only search
\* raised: both have their first record
C39_Witness ==
    /\ like.pc = "idle"
    /\ like.tracks = <<"F", "B">>
    /\ like.queries # <<>>
    /\ \A q \in 1..Len(like.queries) : like.queries[q].raised
    /\ ledger["f"].failure_count = 1
    /\ ledger["f"].next_retry = ledger["f"].insert_time + 7
    /\ ledger["b"].failure_count = 1
    /\ ledger["b"].next_retry = ledger["b"].insert_time + 7


(***************************************************************************)
(* Abandoned runs and repeated tracks (checked under SpecRetry)            *)
(***************************************************************************)
\* the ids that had a cache entry resp. a failure record when the run was
\* abandoned
AbMatched == {id \in TrackIds : hist.abCache[id] # 0}
AbFailed == {id \in TrackIds : hist.abLedger[id] # NoRecord}

\* a run started after the abandonment
Retried == hist.abandoned /\ run.no > hist.abRun

\* what was written before the abandonment is still there
AbandonedWritesPersist ==
    hist.abandoned =>
        \A id \in TrackIds :
            /\ hist.abCache[id] # 0 => cache[id] = hist.abCache[id]
            /\ hist.abLedger[id] # NoRecord =>
                  /\ ledger[id] # NoRecord
                  /\ ledger[id].failure_count >= hist.abLedger[id].failure_count
                  /\ ledger[id].insert_time = hist.abLedger[id].insert_time

\* C33 as claimed: after a run was abandoned during Resolving the cache
\* entries and failure records written before persist, and a later run in
\* the same process issues no search for a track that was matched or
\* recorded as failed before the abandonment.
C33_Original ==
    /\ AbandonedWritesPersist
    /\ Retried => run.searched \cap (AbMatched \cup AbFailed) = {}

\* C33 amended: the entries and records persist; a later run issues no
\* search for a track that was matched before the abandonment, and none
\* for a track recorded as failed before it while the hold of that record
\* has not expired.
C33_Amended ==
    /\ AbandonedWritesPersist
    /\ Retried =>
          /\ run.searched \cap AbMatched = {}
          /\ \A id \in AbFailed :
                hist.abLedger[id].next_retry > now => id \notin run.searched

\* the run on [A, B, C] was abandoned with A recorded as failed and B
\* matched; the retried run searched C and neither A nor B
C33_Witness ==
    /\ Retried
    /\ pc = "done"
    /\ "a" \in AbFailed
    /\ "b" \in AbMatched
    /\ "c" \notin AbMatched \cup AbFailed
    /\ hist.abLedger["a"].next_retry > now
    /\ run.searched = {"c"}

\* C38: one run of sync_playlist raises the failure count of a source id by
\* at most 1, also when the id occurs more than once in the playlist and
\* its occurrences are looked up in the same batch.
C38_Original ==
    \A id \in TrackIds : ledger[id].failure_count <= run.count0[id] + 1

====
